---- MODULE Spec2Model ----
(***************************************************************************)
(* Model of the streaming reconciliation endpoint                          *)
(* (src/app/api/stock-check-stream/route.ts, POST) and of the helpers it   *)
(* calls.  One run of the handler is one behaviour: Init draws the request *)
(* body, every action is one step of the handler, the answers of the       *)
(* upstream systems are drawn when the request is issued.                  *)
(*                                                                         *)
(* History kept for the properties:                                        *)
(*   events  - the frames passed to controller.enqueue, in order           *)
(*   reqLog  - the upstream requests issued and the 250 ms delays awaited, *)
(*             in order; `at` is Len(events) when the entry was logged     *)
(* Results and error notes carry `idx`, the position of the candidate they *)
(* come from (provenance only; the code stores the key).                   *)
(* Product names and links are not modelled.                               *)
(***************************************************************************)
EXTENDS Integers, Sequences, FiniteSets, TLC

\* ---------------------------------------------------------------- bounds
MaxPsids == 2
MaxFeed == 2
\* largest quantity of a classified snapshot
MaxStock == 12

Keys == {"k1", "k2"}
\* the positive quantity an upstream system answers with in a run (an answer
\* without a matching record reads as 0)
RunQty == {7}
\* rows of the static secondary-warehouse import (Balance, InOrder)
NyceRows == {[balance |-> 5, inOrder |-> 0], [balance |-> 0, inOrder |-> 0]}

RECURSIVE SeqsUpTo(_, _)
SeqsUpTo(S, n) ==
    IF n = 0 THEN {<<>>}
    ELSE LET shorter == SeqsUpTo(S, n - 1)
         IN shorter \cup {Append(s, x) : s \in {t \in shorter : Len(t) = n - 1}, x \in S}

Range(s) == {s[j] : j \in 1..Len(s)}
Count(s, P(_)) == Cardinality({j \in 1..Len(s) : P(s[j])})
Last(s) == s[Len(s)]

VARIABLES
    bodyOk,      \* request.json() succeeds
    mode,        \* body.checkMode
    psidsOk,     \* psids && Array.isArray(psids)
    psids,       \* body.psids
    hasNyce,     \* !!nyceCsvData
    nyce,        \* nyceCsvData / nyceDataMap: key -> row
    feedUrlSet,  \* process.env.NEXT_PUBLIC_GOOGLE_FEED_URL is set
    pc,          \* position in the handler
    i,           \* loop index (1-based)
    events,      \* frames enqueued
    closed,      \* controller.close() was called
    results,     \* results: ProductStockResult[]
    errors,      \* errors: string[]
    reqLog,      \* upstream requests and delays
    feed,        \* googleProducts
    feedSchema,  \* key spelling of the feed records
    fluentMap,   \* spot mode: Map<psid, onHand>
    fluentStock, \* full mode: fluentStock of the current candidate
    thrownFetch, \* the error caught by the outer catch mentions 'network' or 'fetch'
    processedCount,
    skippedCount,
    itemsWithUnallocatedStock,
    snapshot,    \* classifier: the merged StockSnapshot handed to analyzeStock*
    verdict,     \* classifier: the ProductStockResult it returns
    cursor,      \* bulk scan: cursor of the last edge seen
    hasNextPage, \* bulk scan: pageInfo.hasNextPage of the last page
    wire,        \* client: characters of the response body not yet read
    buffer,      \* client: `buffer`, the incomplete last line
    handled,     \* client: the events its handlers were run for
    cancelled,   \* the caller went away: length of reqLog and position at that moment
    served,      \* middleware: the requests it saw and what it answered
    batchPromises \* non-streaming spot run: the lookups of the batch being awaited

vars == <<bodyOk, mode, psidsOk, psids, hasNyce, nyce, feedUrlSet, pc, i, events,
          closed, results, errors, reqLog, feed, feedSchema, fluentMap, fluentStock,
          thrownFetch, processedCount, skippedCount, itemsWithUnallocatedStock,
          snapshot, verdict, cursor, hasNextPage, wire, buffer, handled, cancelled, served, batchPromises>>

\* the request body, and the variables of the classifier and of the bulk scan:
\* no step of the streaming handler assigns them
inputVars == <<bodyOk, mode, psidsOk, psids, hasNyce, nyce, feedUrlSet, snapshot, verdict,
               cursor, hasNextPage, wire, buffer, handled, cancelled, served, batchPromises>>
countVars == <<processedCount, skippedCount, itemsWithUnallocatedStock>>

\* ------------------------------------------------------------ classifier
NoArticle == [articleId |-> "", onHandQty |-> 0, inOrderQty |-> 0, physicalQty |-> 0,
              stoppedQty |-> 0, allocatedQty |-> 0, present |-> FALSE]

\* nyceDataMap.set(sku, {...}) of the static import
\* variant: the import reports goods still being put away
NyceArticleOf_Staged(sku, row) ==
    [articleId |-> sku, onHandQty |-> row.balance, inOrderQty |-> row.inOrder,
     physicalQty |-> row.balance + 11, stoppedQty |-> 0, allocatedQty |-> 0, present |-> TRUE]

NyceArticleOf(sku, row) ==
    [articleId |-> sku, onHandQty |-> row.balance, inOrderQty |-> row.inOrder,
     physicalQty |-> row.balance, stoppedQty |-> 0, allocatedQty |-> 0, present |-> TRUE]

Abs(x) == IF x < 0 THEN -x ELSE x

\* variant: the thresholds are inclusive
addNyceInsights_AtLeast10(details, nycePhysical, nyceOnHand, nyceInOrder, nyceUnallocated, fluent) ==
    LET d1 == IF nycePhysical > nyceOnHand /\ nycePhysical - nyceOnHand >= 10
              THEN Append(details, "STAGING BACKLOG") ELSE details
        difference == nyceUnallocated - fluent
    IN  IF difference >= 10
        THEN d1 \o <<"SYNC VARIANCE", "Possible issue">>
        ELSE IF difference > 0 /\ difference < 10
        THEN Append(d1, "MINOR VARIANCE")
        ELSE IF difference < 0 /\ Abs(difference) >= 10
        THEN d1 \o <<"REVERSE VARIANCE", "Note: Fluent may have sold">>
        ELSE d1

addNyceInsights(details, nycePhysical, nyceOnHand, nyceInOrder, nyceUnallocated, fluent) ==
    LET d1 == IF nycePhysical > nyceOnHand /\ nycePhysical - nyceOnHand > 10
              THEN Append(details, "STAGING BACKLOG") ELSE details
        difference == nyceUnallocated - fluent
    IN  IF difference > 10
        THEN d1 \o <<"SYNC VARIANCE", "Possible issue">>
        ELSE IF difference > 0 /\ difference <= 10
        THEN Append(d1, "MINOR VARIANCE")
        ELSE IF difference < 0 /\ Abs(difference) > 10
        THEN d1 \o <<"REVERSE VARIANCE", "Note: Fluent may have sold">>
        ELSE d1

\* variant: a negative unallocated quantity is taken for zero
FullMatrixRow_Clamped(commerceToolsStock, fluent, nyceUnallocated) ==
    IF commerceToolsStock > 0 /\ fluent > 0 /\ nyceUnallocated > 0 THEN 1
    ELSE IF commerceToolsStock = 0 /\ fluent > 0 /\ nyceUnallocated > 0 THEN 2
    ELSE IF commerceToolsStock = 0 /\ fluent = 0 /\ nyceUnallocated > 0 THEN 3
    ELSE IF commerceToolsStock = 0 /\ fluent = 0 /\ nyceUnallocated <= 0 THEN 4
    ELSE 5

\* the if / else-if chain of the 4-scenario matrix: the number of the branch taken
FullMatrixRow(commerceToolsStock, fluent, nyceUnallocated) ==
    IF commerceToolsStock > 0 /\ fluent > 0 /\ nyceUnallocated > 0 THEN 1
    ELSE IF commerceToolsStock = 0 /\ fluent > 0 /\ nyceUnallocated > 0 THEN 2
    ELSE IF commerceToolsStock = 0 /\ fluent = 0 /\ nyceUnallocated > 0 THEN 3
    ELSE IF commerceToolsStock = 0 /\ fluent = 0 /\ nyceUnallocated = 0 THEN 4
    ELSE 5

\* variant: the lower threshold is inclusive
FullOverlay_Inclusive(matrixStatus, syncDiff) ==
    IF syncDiff >= 0 /\ syncDiff <= 10 THEN "warning"
    ELSE IF syncDiff > 10 THEN "issue"
    ELSE matrixStatus

\* variant: the test only ever raises the status
FullOverlay_RaiseOnly(matrixStatus, syncDiff) ==
    IF syncDiff > 0 /\ syncDiff <= 10 /\ matrixStatus = "ok" THEN "warning"
    ELSE IF syncDiff > 10 THEN "issue"
    ELSE matrixStatus

\* variant: warehouse figures that agree clear the status
FullOverlay_OkWhenInSync(matrixStatus, syncDiff) ==
    IF syncDiff > 0 /\ syncDiff <= 10 THEN "warning"
    ELSE IF syncDiff > 10 THEN "issue"
    ELSE IF syncDiff = 0 THEN "ok"
    ELSE matrixStatus

\* the status after the `syncDiff` test that follows the matrix
FullOverlay(matrixStatus, syncDiff) ==
    IF syncDiff > 0 /\ syncDiff <= 10 THEN "warning"
    ELSE IF syncDiff > 10 THEN "issue"
    ELSE matrixStatus

analyzeStockFull(psid, commerceToolsStock, fluent, nyceArticle) ==
    LET nyceOnHand == nyceArticle.onHandQty
        nyceInOrder == nyceArticle.inOrderQty
        nycePhysical == nyceArticle.physicalQty
        nyceUnallocated == nyceOnHand - nyceInOrder
        row == FullMatrixRow(commerceToolsStock, fluent, nyceUnallocated)
        analysis == CASE row = 1 -> "TROLIGTVIS EN SPARR"
                      [] row = 2 -> "TROLIGTVIS SYNKPROBLEM"
                      [] row = 3 -> "LAGERSYNKPROBLEM ELLER UTSALT"
                      [] row = 4 -> "EJ INLEVERAT - DATA OK"
                      [] OTHER   -> "INVESTIGATE"
        matrixStatus == IF row = 4 THEN "ok" ELSE "issue"
        d0 == <<"Google Feed: NOT SELLABLE">> \o
              (CASE row = 1 -> <<"All systems have stock", "business logic block", "Action: Check business rules">>
                 [] row = 2 -> <<"CommerceTools shows 0 but", "CommerceTools should mirror", "Action: Check CommerceTools sync">>
                 [] row = 3 -> <<"NYCE has unallocated but Fluent 0", "Either stock sync issue", "Action: Check NYCE">>
                 [] row = 4 -> <<"All systems correctly show 0", "Product may not have been delivered", "Note: Purchasing should verify">>
                 [] OTHER   -> <<"CT, Fluent, NYCE unallocated">>)
        syncDiff == nyceUnallocated - fluent
        status == FullOverlay(matrixStatus, syncDiff)
        details == IF nyceArticle.present
                   THEN addNyceInsights(d0, nycePhysical, nyceOnHand, nyceInOrder, nyceUnallocated, fluent)
                   ELSE d0
    IN  [psid |-> psid, googleSellable |-> "false", commerceToolsStock |-> commerceToolsStock,
         fluentStock |-> fluent, nyceStock |-> nyceArticle, status |-> status,
         analysis |-> analysis, details |-> details]

\* variant: a difference of exactly 5 already counts as a variance
SpotBranch_Strict(commerceToolsStock, fluent) ==
    LET difference == Abs(commerceToolsStock - fluent)
    IN  IF commerceToolsStock > 0 /\ fluent > 0
        THEN (IF difference = 0 THEN 1 ELSE IF difference < 5 THEN 2 ELSE 3)
        ELSE IF commerceToolsStock = 0 /\ fluent > 0 THEN 4
        ELSE IF commerceToolsStock > 0 /\ fluent = 0 THEN 5
        ELSE 6

\* the if / else-if chain of the spot classifier: the number of the branch taken
SpotBranch(commerceToolsStock, fluent) ==
    LET difference == Abs(commerceToolsStock - fluent)
    IN  IF commerceToolsStock > 0 /\ fluent > 0
        THEN (IF difference = 0 THEN 1 ELSE IF difference <= 5 THEN 2 ELSE 3)
        ELSE IF commerceToolsStock = 0 /\ fluent > 0 THEN 4
        ELSE IF commerceToolsStock > 0 /\ fluent = 0 THEN 5
        ELSE 6

analyzeStockSpot(psid, commerceToolsStock, fluent) ==
    LET difference == Abs(commerceToolsStock - fluent)
        d0 == <<"Spot-check mode">>
        br == SpotBranch(commerceToolsStock, fluent)
        analysis == CASE br = 1 -> "PERFECTLY SYNCED"
                      [] br = 2 -> "IN SYNC"
                      [] br = 3 -> "SYNC VARIANCE"
                      [] br = 4 -> "SYNC ISSUE - CommerceTools not updated"
                      [] br = 5 -> "UNEXPECTED - CT has stock but Fluent shows 0"
                      [] OTHER  -> "NO STOCK"
        status == IF br \in {3, 4, 5} THEN "issue" ELSE "ok"
        details == d0 \o
              (CASE br = 1 -> <<>>
                 [] br = 2 -> <<"Minor difference">>
                 [] br = 3 -> <<"Difference", "Note: Fluent is typically ahead">>
                 [] br = 4 -> <<"Fluent has units but CommerceTools shows 0", "Action: Check CommerceTools sync">>
                 [] br = 5 -> <<"CommerceTools shows units but Fluent has 0", "This is unusual">>
                 [] OTHER  -> <<"Item is out of stock in both">>)
    IN  [psid |-> psid, googleSellable |-> "null", commerceToolsStock |-> commerceToolsStock,
         fluentStock |-> fluent, nyceStock |-> NoArticle, status |-> status,
         analysis |-> analysis, details |-> details]

\* ---------------------------------------------------------------- events
\* sendEvent(type, data): one frame `data: {type, ...data}\n\n`
\* (results/errors: the payload of `result` and `complete` frames, else empty)
Ev(type, tag, key, idx) ==
    [type |-> type, tag |-> tag, key |-> key, idx |-> idx, results |-> <<>>, errors |-> <<>>]
Progress(tag) == Ev("progress", tag, "", 0)
ErrorEv(tag, key, idx) == Ev("error", tag, key, idx)
ResultEv(psid, idx, result) == [Ev("result", "", psid, idx) EXCEPT !.results = <<result>>]
\* variant: the final list is handed over last result first
CompleteEv_Reversed(res, errs) ==
    [Ev("complete", "", "", Len(res)) EXCEPT
        !.results = [n \in 1..Len(res) |-> res[Len(res) + 1 - n]], !.errors = errs]

CompleteEv(res, errs) ==
    [Ev("complete", "", "", Len(res)) EXCEPT !.results = res, !.errors = errs]
SummaryEv(total, notSellable, nyceCount, overlap, unallocated) ==
    [type |-> "summary", tag |-> "", key |-> "", idx |-> 0, results |-> <<>>, errors |-> <<>>,
     totalGoogleFeedItems |-> total, notSellableCount |-> notSellable,
     nyceCsvCount |-> nyceCount, overlapCount |-> overlap,
     itemsWithUnallocatedStock |-> unallocated]

\* an entry of the upstream log
Req(kind, key, idx, outcome) ==
    [kind |-> kind, key |-> key, idx |-> idx, outcome |-> outcome, at |-> Len(events)]

\* answers of the upstream systems
AuthOutcomes == {"ok", "notOk", "transport", "badJson"}
FeedFailures == {"transport", "notOk", "badJson"}
PrimaryKinds == {"ok", "noEdges", "gqlErrors", "notOk", "throw"}
CatalogKinds == {"match", "noMatch", "notOk", "badJson", "transport"}
\* the full loop reads the on-hand through `?.` and `|| 0`: a body with GraphQL
\* errors reads as 0 like one without edges
FullPrimaryKinds == PrimaryKinds \ {"gqlErrors"}

\* `errorMessage.includes('network') || errorMessage.includes('fetch')` for the
\* message of a failed getFluentToken(): fixed text for a non-success status,
\* runtime text for a rejected fetch or an unparsable token body
AuthMsgMentionsFetch(outcome) ==
    IF outcome = "notOk" THEN {FALSE} ELSE BOOLEAN

\* ------------------------------------------------------------------ Init
\* the bulk scan's variables while no scan is running
ScanIdle == cursor = "null" /\ hasNextPage = FALSE
\* the client's variables while no response is being read
ClientIdle == wire = <<>> /\ buffer = <<>> /\ handled = <<>>
\* the caller is still reading the stream
NotCancelled == [at |-> -1, pc |-> ""]
Connected == cancelled = NotCancelled
\* no request has reached the middleware
NoneServed == served = <<>>
\* no batch of lookups is being awaited
NoBatch == batchPromises = <<>>

\* the classifier's variables while no classification is in hand
NoSnapshot == [kind |-> "none", commerceToolsStock |-> 0, fluentStock |-> 0,
               nyceArticle |-> NoArticle]
NoVerdict == [psid |-> "", googleSellable |-> "", commerceToolsStock |-> 0, fluentStock |-> 0,
              nyceStock |-> NoArticle, status |-> "", analysis |-> "", details |-> <<>>]

\* key lists of a full-mode request: the client sends [] (page.tsx), the
\* handler reads only psids.length
FullPsids == {[j \in 1..n |-> "k1"] : n \in {0, MaxPsids}}
NyceMaps == UNION {[S -> NyceRows] : S \in SUBSET Keys}
EmptyMap == [k \in {} |-> 0]

Init ==
    /\ bodyOk \in BOOLEAN
    /\ mode \in {"spot", "full", "other"}
    /\ psidsOk \in BOOLEAN
    /\ psids \in SeqsUpTo(Keys, MaxPsids)
    /\ hasNyce \in BOOLEAN
    /\ nyce \in NyceMaps
    /\ feedUrlSet \in BOOLEAN
    \* inputs the handler never reads are fixed
    /\ ~bodyOk => mode = "other" /\ ~psidsOk
    /\ ~psidsOk => psids = <<>> /\ ~hasNyce
    /\ mode # "spot" => psids \in FullPsids      \* only psids.length is read
    /\ mode # "full" => ~hasNyce /\ feedUrlSet
    /\ ~hasNyce => nyce = EmptyMap /\ feedUrlSet
    /\ pc = "start"
    /\ i = 0
    /\ events = <<>>
    /\ closed = FALSE
    /\ results = <<>>
    /\ errors = <<>>
    /\ reqLog = <<>>
    /\ feed = <<>>
    /\ feedSchema = "cap"
    /\ fluentMap = EmptyMap
    /\ fluentStock = 0
    /\ thrownFetch = FALSE
    /\ processedCount = 0
    /\ skippedCount = 0
    /\ itemsWithUnallocatedStock = 0
    /\ snapshot = NoSnapshot
    /\ ScanIdle /\ ClientIdle /\ Connected /\ NoneServed /\ NoBatch
    /\ verdict = NoVerdict

\* --------------------------------------------------------------- actions
\* request.json() rejects: straight to the outer catch
ParseBodyFails ==
    /\ pc = "start" /\ ~bodyOk
    /\ \E f \in BOOLEAN : thrownFetch' = f
    /\ pc' = "catch"
    /\ UNCHANGED <<inputVars, i, events, closed, results, errors, reqLog, feed, feedSchema,
                   fluentMap, fluentStock, countVars>>

\* if (!psids || !Array.isArray(psids)) / if (checkMode === 'full' && !nyceCsvData)
ValidateRejects ==
    /\ pc = "start" /\ bodyOk
    /\ \/ ~psidsOk /\ events' = Append(events, ErrorEv("invalidPsids", "", 0))
       \/ psidsOk /\ mode = "full" /\ ~hasNyce
          /\ events' = Append(events, ErrorEv("needsCsv", "", 0))
    /\ closed' = TRUE
    /\ pc' = "done"
    /\ UNCHANGED <<inputVars, i, results, errors, reqLog, feed, feedSchema, fluentMap,
                   fluentStock, thrownFetch, countVars>>

\* validation passes: first progress event, then the mode dispatch
ValidateAccepts ==
    /\ pc = "start" /\ bodyOk /\ psidsOk /\ (mode = "full" => hasNyce)
    /\ IF mode = "full"
       THEN /\ events' = events \o <<Progress("starting"), Progress("fetchingFeed")>>
            /\ pc' = "fullFeed"
       ELSE IF mode = "spot"
       THEN /\ events' = events \o <<Progress("starting"), Progress("gettingToken")>>
            /\ pc' = "spotAuth"
       ELSE /\ events' = Append(events, Progress("starting"))
            /\ pc' = "complete"
    /\ UNCHANGED <<inputVars, i, closed, results, errors, reqLog, feed, feedSchema,
                   fluentMap, fluentStock, thrownFetch, countVars>>

\* ------------------------------------------------------------- spot mode
\* const fluentToken = await getFluentToken()   (no local try/catch)
SpotAuth ==
    /\ pc = "spotAuth"
    /\ \E o \in AuthOutcomes :
        /\ reqLog' = Append(reqLog, Req("auth", "", 0, o))
        /\ IF o = "ok"
           THEN /\ events' = Append(events, Progress("fetchingFluent"))
                /\ pc' = "spotPrimary"
                /\ i' = 1
                /\ UNCHANGED thrownFetch
           ELSE /\ \E f \in AuthMsgMentionsFetch(o) : thrownFetch' = f
                /\ pc' = "catch"
                /\ UNCHANGED <<events, i>>
    /\ UNCHANGED <<inputVars, closed, results, errors, feed, feedSchema, fluentMap,
                   fluentStock, countVars>>

\* variant: a request that failed is sent a second time
SpotPrimaryStep_Retry ==
    /\ pc = "spotPrimary" /\ i <= Len(psids)
    /\ \E k \in PrimaryKinds, q \in RunQty \cup {0} :
        LET psid == psids[i]
            ev1 == Append(events, Ev("progress", "checkingFluent", psid, i))
            rq == [Req("primary", psid, i, k) EXCEPT !.at = Len(ev1)]
            delayed == k \in {"ok", "noEdges"} /\ i < Len(psids)
        IN  /\ k = "ok" <=> q # 0
            /\ events' = ev1
            /\ reqLog' = IF delayed
                         THEN reqLog \o <<rq, [Req("delay", psid, i, "") EXCEPT !.at = Len(ev1)]>>
                         ELSE IF k \in {"notOk", "throw"}
                         THEN reqLog \o <<rq, rq>>
                         ELSE Append(reqLog, rq)
            /\ fluentMap' = IF k = "ok"
                            THEN [x \in DOMAIN fluentMap \cup {psid} |->
                                     IF x = psid THEN q ELSE fluentMap[x]]
                            ELSE fluentMap
    /\ i' = i + 1
    /\ UNCHANGED <<inputVars, pc, closed, results, errors, feed, feedSchema, fluentStock,
                   thrownFetch, countVars>>

\* one iteration of the loop of getFluentInventoryForProducts
SpotPrimaryStep ==
    /\ pc = "spotPrimary" /\ i <= Len(psids)
    /\ \E k \in PrimaryKinds, q \in RunQty \cup {0} :
        LET psid == psids[i]
            ev1 == Append(events, Ev("progress", "checkingFluent", psid, i))
            rq == [Req("primary", psid, i, k) EXCEPT !.at = Len(ev1)]
            \* `continue` and the catch both bypass the delay at the end of the try
            delayed == k \in {"ok", "noEdges"} /\ i < Len(psids)
        IN  /\ k = "ok" <=> q # 0
            /\ events' = ev1
            /\ reqLog' = IF delayed
                         THEN reqLog \o <<rq, [Req("delay", psid, i, "") EXCEPT !.at = Len(ev1)]>>
                         ELSE Append(reqLog, rq)
            /\ fluentMap' = IF k = "ok"
                            THEN [x \in DOMAIN fluentMap \cup {psid} |->
                                     IF x = psid THEN q ELSE fluentMap[x]]
                            ELSE fluentMap
    /\ i' = i + 1
    /\ UNCHANGED <<inputVars, pc, closed, results, errors, feed, feedSchema, fluentStock,
                   thrownFetch, countVars>>

\* variant: the first phase may be left before every key was asked for
SpotPrimaryDone_Early ==
    /\ pc = "spotPrimary"
    /\ events' = Append(events, Progress("fluentDone"))
    /\ pc' = "spotLoop"
    /\ i' = 1
    /\ UNCHANGED <<inputVars, closed, results, errors, reqLog, feed, feedSchema, fluentMap,
                   fluentStock, thrownFetch, countVars>>

\* onProgress(`Fluent check complete ...`); return inventoryMap
SpotPrimaryDone ==
    /\ pc = "spotPrimary" /\ i > Len(psids)
    /\ events' = Append(events, Progress("fluentDone"))
    /\ pc' = "spotLoop"
    /\ i' = 1
    /\ UNCHANGED <<inputVars, closed, results, errors, reqLog, feed, feedSchema, fluentMap,
                   fluentStock, thrownFetch, countVars>>

\* variant: the catch rethrows, so the outer catch ends the run
SpotItemCatch_Rethrow(psid, idx, evs) ==
    /\ events' = evs
    /\ thrownFetch' = FALSE
    /\ pc' = "catch"
    /\ UNCHANGED <<i, results, errors>>

\* variant: the catch reports the failure as an event only, without the note
SpotItemCatch_NoNote(psid, idx, evs) ==
    /\ events' = Append(evs, ErrorEv("failedToProcess", psid, idx))
    /\ pc' = "spotLoop"
    /\ i' = i + 1
    /\ UNCHANGED <<results, errors, thrownFetch>>

\* catch (error) of the spot loop: the key gets an error note and no result
SpotItemCatch(psid, idx, evs) ==
    /\ errors' = Append(errors, [tag |-> "failedToProcess", key |-> psid, idx |-> idx])
    /\ events' = Append(evs, ErrorEv("failedToProcess", psid, idx))
    /\ pc' = "spotLoop"
    /\ i' = i + 1
    /\ UNCHANGED <<results, thrownFetch>>

\* one iteration of `for (let i = 0; i < psids.length; i++)` in spot mode.
\* response.ok is not tested: a non-success answer is parsed like any other and
\* fails in json() or in `.products.find` (error body without a product list).
SpotLoopStep ==
    /\ pc = "spotLoop" /\ i <= Len(psids)
    /\ \E c \in CatalogKinds, q \in RunQty \cup {0} :
        LET psid == psids[i]
            ev1 == Append(events, Ev("progress", "checking", psid, i))
            commerceToolsStock == IF c = "match" THEN q ELSE 0
            fluent == IF psid \in DOMAIN fluentMap THEN fluentMap[psid] ELSE 0
            result == analyzeStockSpot(psid, commerceToolsStock, fluent)
        IN  /\ c = "match" <=> q # 0
            /\ reqLog' = Append(reqLog, [Req("catalog", psid, i, c) EXCEPT !.at = Len(ev1)])
            /\ IF c \in {"match", "noMatch"}
               THEN /\ results' = Append(results, [idx |-> i, r |-> result])
                    /\ events' = Append(ev1, ResultEv(psid, i, [idx |-> i, r |-> result]))
                    /\ pc' = "spotLoop"
                    /\ i' = i + 1
                    /\ UNCHANGED <<errors, thrownFetch>>
               ELSE SpotItemCatch(psid, i, ev1)
    /\ UNCHANGED <<inputVars, closed, feed, feedSchema, fluentMap, fluentStock, countVars>>

SpotLoopDone ==
    /\ pc = "spotLoop" /\ i > Len(psids)
    /\ pc' = "complete"
    /\ UNCHANGED <<inputVars, i, events, closed, results, errors, reqLog, feed, feedSchema,
                   fluentMap, fluentStock, thrownFetch, countVars>>

\* ------------------------------------------------------------- full mode
FeedRecords == [key : Keys, avail : {"in_stock", "out_of_stock"}]
FeedSeqs == SeqsUpTo(FeedRecords, MaxFeed)
Undefined == "undefined"

\* p.Id and p.Availability of a feed record: only the capitalized spelling is read
PId(p, schema) == IF schema = "cap" THEN p.key ELSE Undefined
PAvailability(p, schema) == IF schema = "cap" THEN p.avail ELSE Undefined

RECURSIVE NotSellablePsids(_, _)
\* googleProducts.filter(p => p.Availability === 'out_of_stock').map(p => p.Id)
NotSellablePsids(fd, schema) ==
    IF fd = <<>> THEN <<>>
    ELSE IF PAvailability(Head(fd), schema) = "out_of_stock"
         THEN <<PId(Head(fd), schema)>> \o NotSellablePsids(Tail(fd), schema)
         ELSE NotSellablePsids(Tail(fd), schema)

notSellablePsids == NotSellablePsids(feed, feedSchema)

\* notSellablePsids.filter(psid => nyceDataMap.has(psid))
itemsToProcess == SelectSeq(notSellablePsids, LAMBDA p : p \in DOMAIN nyce)

\* if (!googleFeedUrl) { sendEvent('error', ...); throw new Error(error) }
FullFeedUrlMissing ==
    /\ pc = "fullFeed" /\ ~feedUrlSet
    /\ events' = Append(events, ErrorEv("feedUrlNotConfigured", "", 0))
    /\ thrownFetch' = FALSE
    /\ pc' = "catch"
    /\ UNCHANGED <<inputVars, i, closed, results, errors, reqLog, feed, feedSchema,
                   fluentMap, fluentStock, countVars>>

\* variant: the failure is reported but swallowed, the run goes on with no feed
FullFeedFails_Swallow ==
    /\ pc = "fullFeed" /\ feedUrlSet
    /\ \E o \in FeedFailures : reqLog' = Append(reqLog, Req("feed", "", 0, o))
    /\ events' = events \o <<ErrorEv("feedFailed", "", 0), ErrorEv("feedUrl", "", 0)>>
    /\ pc' = "fullFilter"
    /\ UNCHANGED <<inputVars, i, closed, results, errors, feed, feedSchema,
                   fluentMap, fluentStock, thrownFetch, countVars>>

\* the feed fetch fails (rejected or timed out, non-success status, invalid JSON):
\* two error events, then `throw new Error('Failed to fetch Google Feed: ...')`
FullFeedFails ==
    /\ pc = "fullFeed" /\ feedUrlSet
    /\ \E o \in FeedFailures : reqLog' = Append(reqLog, Req("feed", "", 0, o))
    /\ events' = events \o <<ErrorEv("feedFailed", "", 0), ErrorEv("feedUrl", "", 0)>>
    /\ thrownFetch' = TRUE       \* the message contains 'Failed to fetch'
    /\ pc' = "catch"
    /\ UNCHANGED <<inputVars, i, closed, results, errors, feed, feedSchema,
                   fluentMap, fluentStock, countVars>>

\* the body parses but is not a list of records: `googleProducts.filter` throws
\* a TypeError after the 'Google Feed loaded' progress event
FullFeedNotArray ==
    /\ pc = "fullFeed" /\ feedUrlSet
    /\ reqLog' = Append(reqLog, Req("feed", "", 0, "notArray"))
    /\ events' = Append(events, Progress("feedLoaded"))
    /\ thrownFetch' = FALSE
    /\ pc' = "catch"
    /\ UNCHANGED <<inputVars, i, closed, results, errors, feed, feedSchema,
                   fluentMap, fluentStock, countVars>>

\* the feed is loaded and filtered
FullFeedLoaded ==
    /\ pc = "fullFeed" /\ feedUrlSet
    /\ \E fd \in FeedSeqs, sc \in {"cap", "lower"} :
        /\ feed' = fd
        /\ feedSchema' = sc
    /\ reqLog' = Append(reqLog, Req("feed", "", 0, "ok"))
    /\ events' = events \o <<Progress("feedLoaded"), Progress("foundNotSellable")>>
    /\ pc' = "fullFilter"
    /\ UNCHANGED <<inputVars, i, closed, results, errors, fluentMap, fluentStock,
                   thrownFetch, countVars>>

\* if (notSellableProducts.length === 0) { ...complete...; close; return }
FullNothingToCheck ==
    /\ pc = "fullFilter" /\ Len(notSellablePsids) = 0
    /\ events' = events \o <<Progress("nothingToCheck"), CompleteEv(<<>>, <<>>)>>
    /\ closed' = TRUE
    /\ pc' = "done"
    /\ UNCHANGED <<inputVars, i, results, errors, reqLog, feed, feedSchema, fluentMap,
                   fluentStock, thrownFetch, countVars>>

\* the import is loaded into nyceDataMap, then the token is requested
FullLoadNyce ==
    /\ pc = "fullFilter" /\ Len(notSellablePsids) > 0
    /\ events' = events \o <<Progress("nyceLoaded"), Progress("gettingFluentAuth")>>
    /\ pc' = "fullAuth"
    /\ UNCHANGED <<inputVars, i, closed, results, errors, reqLog, feed, feedSchema,
                   fluentMap, fluentStock, thrownFetch, countVars>>

\* try { fluentToken = await getFluentToken() ... } succeeds
FullAuthOk ==
    /\ pc = "fullAuth"
    /\ reqLog' = Append(reqLog, Req("auth", "", 0, "ok"))
    /\ events' = events \o <<Progress("authOk"), Progress("processingOverlap")>>
    /\ pc' = "fullOverlap"
    /\ UNCHANGED <<inputVars, i, closed, results, errors, feed, feedSchema, fluentMap,
                   fluentStock, thrownFetch, countVars>>

\* variant: the catch reports the failure but does not rethrow
FullAuthFails_NoThrow ==
    /\ pc = "fullAuth"
    /\ \E o \in AuthOutcomes \ {"ok"} : reqLog' = Append(reqLog, Req("auth", "", 0, o))
    /\ events' = events \o <<ErrorEv("authFailed", "", 0), ErrorEv("authHint", "", 0)>>
    /\ pc' = "fullOverlap"
    /\ UNCHANGED <<inputVars, i, closed, results, errors, feed, feedSchema, fluentMap,
                   fluentStock, thrownFetch, countVars>>

\* ... catch: two error events, then `throw new Error(errorMsg)`
FullAuthFails ==
    /\ pc = "fullAuth"
    /\ \E o \in AuthOutcomes \ {"ok"} :
        /\ reqLog' = Append(reqLog, Req("auth", "", 0, o))
        /\ \E f \in AuthMsgMentionsFetch(o) : thrownFetch' = f
    /\ events' = events \o <<ErrorEv("authFailed", "", 0), ErrorEv("authHint", "", 0)>>
    /\ pc' = "catch"
    /\ UNCHANGED <<inputVars, i, closed, results, errors, feed, feedSchema, fluentMap,
                   fluentStock, countVars>>

\* if (itemsToProcess.length === 0) { ...complete with summary...; close; return }
FullNoOverlap ==
    /\ pc = "fullOverlap" /\ Len(itemsToProcess) = 0
    /\ events' = events \o <<Progress("noOverlap"),
                               [CompleteEv(<<>>, <<>>) EXCEPT !.tag = "withSummary"]>>
    /\ closed' = TRUE
    /\ pc' = "done"
    /\ UNCHANGED <<inputVars, i, results, errors, reqLog, feed, feedSchema, fluentMap,
                   fluentStock, thrownFetch, countVars>>

FullEnterLoop ==
    /\ pc = "fullOverlap" /\ Len(itemsToProcess) > 0
    /\ pc' = "fullLoop"
    /\ i' = 1
    /\ UNCHANGED <<inputVars, events, closed, results, errors, reqLog, feed, feedSchema,
                   fluentMap, fluentStock, thrownFetch, countVars>>

\* variant: the key is passed over without being counted
FullLoopSkip_NoCount ==
    /\ pc = "fullLoop" /\ i <= Len(notSellablePsids)
    /\ notSellablePsids[i] \notin DOMAIN nyce
    /\ events' = Append(events, Ev("progress", "skipping", notSellablePsids[i], i))
    /\ i' = i + 1
    /\ UNCHANGED <<inputVars, pc, closed, results, errors, reqLog, feed, feedSchema,
                   fluentMap, fluentStock, thrownFetch, countVars>>

\* if (!nyceDataMap.has(psid)) { skippedCount++; progress; continue }
FullLoopSkip ==
    /\ pc = "fullLoop" /\ i <= Len(notSellablePsids)
    /\ notSellablePsids[i] \notin DOMAIN nyce
    /\ skippedCount' = skippedCount + 1
    /\ events' = Append(events, Ev("progress", "skipping", notSellablePsids[i], i))
    /\ i' = i + 1
    /\ UNCHANGED <<inputVars, pc, closed, results, errors, reqLog, feed, feedSchema,
                   fluentMap, fluentStock, thrownFetch, processedCount,
                   itemsWithUnallocatedStock>>

\* catch (error) of the full loop: error note and error event, no result, no delay
FullItemCatch(psid, idx, evs) ==
    /\ errors' = Append(errors, [tag |-> "failedToProcess", key |-> psid, idx |-> idx])
    /\ events' = Append(evs, ErrorEv("failedToProcess", psid, idx))
    /\ pc' = "fullLoop"
    /\ i' = i + 1
    /\ UNCHANGED <<fluentStock, thrownFetch>>

\* variant: the unallocated counter is raised before the requests are made
FullPrimary_CountFirst ==
    /\ pc = "fullLoop" /\ i <= Len(notSellablePsids)
    /\ notSellablePsids[i] \in DOMAIN nyce
    /\ processedCount' = processedCount + 1
    /\ \E k \in FullPrimaryKinds, q \in RunQty \cup {0} :
        LET psid == notSellablePsids[i]
            ev1 == Append(events, Ev("progress", "checking", psid, i))
            throws == k = "throw"
        IN  /\ k = "ok" <=> q # 0
            /\ reqLog' = Append(reqLog, [Req("primary", psid, i, k) EXCEPT !.at = Len(ev1)])
            /\ IF throws
               THEN FullItemCatch(psid, i, ev1)
               ELSE /\ fluentStock' = q     \* ...?.node?.onHand || 0
                    /\ events' = ev1
                    /\ pc' = "fullCatalog"
                    /\ UNCHANGED <<i, errors, thrownFetch>>
    /\ itemsWithUnallocatedStock' =
         IF nyce[notSellablePsids[i]].balance - nyce[notSellablePsids[i]].inOrder > 0
         THEN itemsWithUnallocatedStock + 1 ELSE itemsWithUnallocatedStock
    /\ UNCHANGED <<inputVars, closed, results, feed, feedSchema, fluentMap, skippedCount>>

\* processedCount++, progress, the per-key primary request.  response.ok is not
\* tested: the body of any answer is parsed ("notOk": a non-success answer with
\* a JSON error body); "throw" is a rejected fetch or a body that is not JSON.
FullPrimary ==
    /\ pc = "fullLoop" /\ i <= Len(notSellablePsids)
    /\ notSellablePsids[i] \in DOMAIN nyce
    /\ processedCount' = processedCount + 1
    /\ \E k \in FullPrimaryKinds, q \in RunQty \cup {0} :
        LET psid == notSellablePsids[i]
            ev1 == Append(events, Ev("progress", "checking", psid, i))
            throws == k = "throw"
        IN  /\ k = "ok" <=> q # 0
            /\ reqLog' = Append(reqLog, [Req("primary", psid, i, k) EXCEPT !.at = Len(ev1)])
            /\ IF throws
               THEN FullItemCatch(psid, i, ev1)
               ELSE /\ fluentStock' = q     \* ...?.node?.onHand || 0
                    /\ events' = ev1
                    /\ pc' = "fullCatalog"
                    /\ UNCHANGED <<i, errors, thrownFetch>>
    /\ UNCHANGED <<inputVars, closed, results, feed, feedSchema, fluentMap, skippedCount,
                   itemsWithUnallocatedStock>>

\* the catalog lookup with its own try/catch, the classification, the result
\* event and the delay guarded by `i < psids.length - 1`
FullCatalog ==
    /\ pc = "fullCatalog"
    /\ \E c \in CatalogKinds, q \in RunQty \cup {0} :
        LET psid == notSellablePsids[i]
            commerceToolsStock == IF c = "match" THEN q ELSE 0
            failed == c \in {"notOk", "badJson", "transport"}
            ev1 == IF failed THEN Append(events, ErrorEv("autocompleteFailed", psid, i))
                   ELSE events
            nyceArticle == NyceArticleOf(psid, nyce[psid])
            result == analyzeStockFull(psid, commerceToolsStock, fluentStock, nyceArticle)
            rq == Req("catalog", psid, i, c)
        IN  /\ c = "match" <=> q # 0
            /\ itemsWithUnallocatedStock' =
                 IF nyceArticle.onHandQty - nyceArticle.inOrderQty > 0
                 THEN itemsWithUnallocatedStock + 1 ELSE itemsWithUnallocatedStock
            /\ results' = Append(results, [idx |-> i, r |-> result])
            /\ events' = Append(ev1, ResultEv(psid, i, [idx |-> i, r |-> result]))
            /\ reqLog' = IF i < Len(psids)        \* i < psids.length - 1, 0-based
                         THEN reqLog \o <<rq, [Req("delay", psid, i, "") EXCEPT !.at = Len(events')]>>
                         ELSE Append(reqLog, rq)
    /\ pc' = "fullLoop"
    /\ i' = i + 1
    /\ UNCHANGED <<inputVars, closed, errors, feed, feedSchema, fluentMap, fluentStock,
                   thrownFetch, processedCount, skippedCount>>

\* variant: the loop ends without the summary
FullLoopDone_NoSummary ==
    /\ pc = "fullLoop" /\ i > Len(notSellablePsids)
    /\ events' = Append(events, Progress("fullCheckComplete"))
    /\ pc' = "complete"
    /\ UNCHANGED <<inputVars, i, closed, results, errors, reqLog, feed, feedSchema,
                   fluentMap, fluentStock, thrownFetch, countVars>>

\* after the loop: progress, summary, then the common completion
FullLoopDone ==
    /\ pc = "fullLoop" /\ i > Len(notSellablePsids)
    /\ events' = events \o
         <<Progress("fullCheckComplete"),
           SummaryEv(Len(feed), Len(notSellablePsids), Cardinality(DOMAIN nyce),
                     Len(itemsToProcess), itemsWithUnallocatedStock)>>
    /\ pc' = "complete"
    /\ UNCHANGED <<inputVars, i, closed, results, errors, reqLog, feed, feedSchema,
                   fluentMap, fluentStock, thrownFetch, countVars>>

\* ------------------------------------------------------------ completion
\* variant: the completion frame is sent but the stream is left open
Complete_NoClose ==
    /\ pc = "complete"
    /\ events' = Append(events, CompleteEv(results, errors))
    /\ pc' = "done"
    /\ UNCHANGED <<inputVars, i, closed, results, errors, reqLog, feed, feedSchema, fluentMap,
                   fluentStock, thrownFetch, countVars>>

\* sendEvent('complete', { results, errors, total: results.length }); controller.close()
Complete ==
    /\ pc = "complete"
    /\ events' = Append(events, CompleteEv(results, errors))
    /\ closed' = TRUE
    /\ pc' = "done"
    /\ UNCHANGED <<inputVars, i, results, errors, reqLog, feed, feedSchema, fluentMap,
                   fluentStock, thrownFetch, countVars>>

\* variant: the catch also hands the partial lists over in a `complete` frame
FatalCatch_AlsoComplete ==
    /\ pc = "catch"
    /\ events' = events \o <<ErrorEv("fatal", "", 0), CompleteEv(results, errors)>>
    /\ closed' = TRUE
    /\ pc' = "done"
    /\ UNCHANGED <<inputVars, i, results, errors, reqLog, feed, feedSchema, fluentMap,
                   fluentStock, thrownFetch, countVars>>

\* the outer catch: 'Fatal error: ...', a network hint when the message mentions
\* 'network' or 'fetch', controller.close()
FatalCatch ==
    /\ pc = "catch"
    /\ events' = events \o <<ErrorEv("fatal", "", 0)>> \o
                 (IF thrownFetch THEN <<ErrorEv("networkHint", "", 0)>> ELSE <<>>)
    /\ closed' = TRUE
    /\ pc' = "done"
    /\ UNCHANGED <<inputVars, i, results, errors, reqLog, feed, feedSchema, fluentMap,
                   fluentStock, thrownFetch, countVars>>

\* ------------------------------------------------------------ properties
\* per-item error events (non-terminal) and the other, run-ending, error events
IsSoftError(e) == e.type = "error" /\ e.tag \in {"failedToProcess", "autocompleteFailed"}
IsFatalError(e) == e.type = "error" /\ ~IsSoftError(e)
IsTerminal(e) == e.type = "complete" \/ IsFatalError(e)

EventsAfter(n) == {j \in 1..Len(events) : j > n}
ReqIdx(kind) == {p \in 1..Len(reqLog) : reqLog[p].kind = kind}
AuthFailure(p) == reqLog[p].kind = "auth" /\ reqLog[p].outcome # "ok"
FeedFailure(p) == reqLog[p].kind = "feed" /\ reqLog[p].outcome # "ok"
PrimaryFailure(p) ==
    reqLog[p].kind = "primary" /\ reqLog[p].outcome \in {"notOk", "throw"}
CatalogFailure(p) ==
    reqLog[p].kind = "catalog" /\ reqLog[p].outcome \in {"notOk", "badJson", "transport"}
PerKeyFailure(p) ==
    \/ PrimaryFailure(p)
    \/ reqLog[p].kind = "primary" /\ reqLog[p].outcome = "gqlErrors"
    \/ CatalogFailure(p)

EndedWithComplete == pc = "done" /\ Len(events) > 0 /\ Last(events).type = "complete"

C1_StateInv ==
    /\ \A j \in 1..Len(events) : events[j].type = "complete" => j = Len(events) /\ closed
    /\ \A j \in 1..Len(events) : IsFatalError(events[j]) =>
          \A k \in j..Len(events) : IsFatalError(events[k])
    /\ Count(events, IsFatalError) <= 4
    /\ closed => Len(events) > 0 /\ IsTerminal(Last(events))

C3_FeedFailureIsFatal ==
    \A p \in 1..Len(reqLog) : FeedFailure(p) =>
        /\ Len(reqLog) = 1
        /\ \A j \in 1..Len(events) : events[j].type \notin {"result", "summary", "complete"}
        /\ pc \in {"catch", "done"}
        /\ pc = "done" => closed /\ IsFatalError(Last(events))

C3_Witness ==
    pc = "done" /\ Len(reqLog) = 1 /\ FeedFailure(1) /\ reqLog[1].outcome = "badJson"

\* the candidates of the run, by position
Candidates ==
    IF mode = "spot" THEN 1..Len(psids)
    ELSE IF mode = "full"
    THEN {j \in 1..Len(notSellablePsids) : notSellablePsids[j] \in DOMAIN nyce}
    ELSE {}
Requested(kind, idx) == \E p \in ReqIdx(kind) : reqLog[p].idx = idx
\* the catalog is not asked in full mode when the primary request threw
Processed(idx) ==
    /\ Requested("primary", idx)
    /\ Requested("catalog", idx) \/ \E e \in Range(errors) : e.idx = idx

\* C4: a failure of a per-key primary request or of a catalog lookup never
\* aborts the run: no fatal error is emitted, every candidate is processed and
\* the run ends with `complete`.
C4_ItemFailureNeverAborts ==
    (\E p \in 1..Len(reqLog) : PerKeyFailure(p)) =>
        /\ pc # "catch"
        /\ \A j \in 1..Len(events) : ~IsFatalError(events[j])
        /\ pc = "done" =>
             /\ Last(events).type = "complete"
             /\ \A idx \in Candidates : Processed(idx)

C4_Witness ==
    /\ EndedWithComplete
    /\ \E p \in 1..Len(reqLog) :
          /\ PerKeyFailure(p)
          /\ \E idx \in Candidates : idx > reqLog[p].idx /\ Processed(idx)

\* C5 (as stated): every soft per-item failure of the run has its note in the
\* `errors` list of the `complete` event.
C5_SoftErrorsInComplete ==
    EndedWithComplete =>
        \A p \in 1..Len(reqLog) : (PrimaryFailure(p) \/ CatalogFailure(p)) =>
            \E e \in Range(Last(events).errors) : e.idx = reqLog[p].idx

ResultEvents(idx) == {j \in 1..Len(events) : events[j].type = "result" /\ events[j].idx = idx}
ErrorNotes(idx) == {j \in 1..Len(errors) : errors[j].idx = idx}

C7_FailedPrimaryIsAbsent ==
    \A p \in 1..Len(reqLog) : PrimaryFailure(p) =>
        /\ \A j \in 1..Len(results) :
              results[j].idx = reqLog[p].idx => results[j].r.fluentStock # 0
        /\ pc = "done" => ErrorNotes(reqLog[p].idx) # {}

\* C8 (as stated): a failed catalog lookup still classifies the key with
\* catalog quantity 0, appends an error note and does not abort the run.
C8_CatalogSoftMiss ==
    pc = "done" =>
        \A p \in 1..Len(reqLog) : CatalogFailure(p) =>
            /\ \E j \in 1..Len(results) :
                  results[j].idx = reqLog[p].idx /\ results[j].r.commerceToolsStock = 0
            /\ ErrorNotes(reqLog[p].idx) # {}
            /\ Last(events).type = "complete"

\* between two consecutive per-key primary requests a delay was awaited
Throttled ==
    \A p, q \in ReqIdx("primary") :
        (p < q /\ \A m \in ReqIdx("primary") : ~(p < m /\ m < q)) =>
            \E d \in ReqIdx("delay") : p < d /\ d < q

\* C9 (as stated): in spot mode the delay elapses between every two
\* consecutive per-key primary requests, also after a failed one.
C9_SpotThrottle == mode = "spot" => Throttled

\* C10 (as stated): in full mode the delay elapses between the per-key primary
\* requests of consecutive surviving candidates, whatever the caller's key list.
C10_FullThrottle == mode = "full" => Throttled

\* ------------------------------------------------ skipping and the summary
\* positions of the feed's unsellable entries, as the streaming route reads them
Unsellable == {j \in 1..Len(feed) : PAvailability(feed[j], feedSchema) = "out_of_stock"}
Covered == {j \in Unsellable : PId(feed[j], feedSchema) \in DOMAIN nyce}
SummaryIdx == {j \in 1..Len(events) : events[j].type = "summary"}
\* the loop has ended: the summary is the event just emitted
AtLoopEnd == mode = "full" /\ pc = "complete"

\* C19: in a full-mode streaming run a feed-unsellable key absent from the
\* secondary snapshot is counted as skipped by the loop and never produces a
\* result; at the end of the loop overlapCount is the number of unsellable feed
\* entries present in the secondary snapshot and skippedCount = notSellableCount
\* - overlapCount.
C19_SkippedCounting ==
    mode = "full" =>
        /\ \A j \in 1..Len(results) : results[j].r.psid \in DOMAIN nyce
        /\ \A j \in 1..Len(events) :
              events[j].type = "result" => events[j].key \in DOMAIN nyce
        /\ pc \in {"fullLoop", "fullCatalog", "complete"} =>
              skippedCount =
                  Cardinality({j \in 1..Len(notSellablePsids) :
                                  j < i /\ notSellablePsids[j] \notin DOMAIN nyce})
        /\ pc = "complete" =>
              /\ Last(events).type = "summary"
              /\ Last(events).notSellableCount = Cardinality(Unsellable)
              /\ Last(events).overlapCount = Cardinality(Covered)
              /\ skippedCount = Last(events).notSellableCount - Last(events).overlapCount

C19_Witness ==
    /\ AtLoopEnd /\ skippedCount = 1 /\ Len(results) = 1
    /\ Last(events).type = "summary"
    /\ Last(events).notSellableCount = 2 /\ Last(events).overlapCount = 1

\* C20 (as stated): every full-mode run that ends with `complete` has emitted
\* exactly one `summary` event, after the last `result` and before `complete`,
\* also when no item is unsellable or the intersection is empty; a spot-mode run
\* emits no `summary` event.
C20_AlwaysOneSummary ==
    EndedWithComplete =>
        IF mode = "full"
        THEN /\ Cardinality(SummaryIdx) = 1
             /\ \A s \in SummaryIdx :
                   /\ s < Len(events)
                   /\ \A j \in 1..Len(events) : events[j].type = "result" => j < s
        ELSE SummaryIdx = {}

\* C20 (amended): a full-mode run that ends with `complete` has emitted exactly
\* one `summary` event (feed total, not-sellable count, secondary size,
\* intersection size, count with positive unallocated), after the last `result`
\* and before `complete`, when the intersection is not empty; when no item is
\* unsellable or the intersection is empty it has emitted none (with an empty
\* intersection the figures travel inside the `complete` frame). A spot-mode run
\* emits no `summary` event.
C20_OneSummaryAfterLoop ==
    EndedWithComplete =>
        IF mode = "full" /\ Covered # {}
        THEN /\ Cardinality(SummaryIdx) = 1
             /\ \A s \in SummaryIdx :
                   /\ s < Len(events)
                   /\ \A j \in 1..Len(events) : events[j].type = "result" => j < s
                   /\ events[s].totalGoogleFeedItems = Len(feed)
                   /\ events[s].notSellableCount = Cardinality(Unsellable)
                   /\ events[s].nyceCsvCount = Cardinality(DOMAIN nyce)
                   /\ events[s].overlapCount = Cardinality(Covered)
                   /\ events[s].itemsWithUnallocatedStock =
                        Cardinality({j \in 1..Len(results) :
                            results[j].r.nyceStock.onHandQty
                              - results[j].r.nyceStock.inOrderQty > 0})
        ELSE /\ SummaryIdx = {}
             /\ mode = "full" /\ Unsellable # {} => Last(events).tag = "withSummary"

C20_Witness ==
    /\ EndedWithComplete /\ mode = "full" /\ Cardinality(SummaryIdx) = 1
    /\ Len(results) = 1 /\ Len(errors) = 1
    /\ \A s \in SummaryIdx : events[s].itemsWithUnallocatedStock = 1

\* ------------------------------------------------------ request validation
InvalidInput ==
    \/ ~bodyOk
    \/ ~psidsOk
    \/ mode \notin {"spot", "full"}
    \/ mode = "full" /\ ~hasNyce

\* C21: a request with missing or invalid input (no key list, a mode that is
\* neither spot nor full, full mode without the secondary import) is rejected
\* with an error, without `complete`, and before any upstream request.
C21_InvalidInputRejected ==
    InvalidInput =>
        /\ reqLog = <<>>
        /\ \A j \in 1..Len(events) : events[j].type # "complete"
        /\ closed => Len(events) > 0 /\ Last(events).type = "error"

\* ------------------------------------------------------------ feed schemas
\* the keys the feed lists as out_of_stock, whichever spelling its records use
FeedUnsellableKeys == {feed[j].key : j \in {k \in 1..Len(feed) : feed[k].avail = "out_of_stock"}}

\* C25: for a feed with lower-case keys (id, availability) and for one with
\* capitalized keys (Id, Availability) a full-mode run derives the same set of
\* not-sellable candidate keys: the keys the feed lists as out_of_stock.
C25_BothSchemas ==
    mode = "full" => Range(notSellablePsids) = FeedUnsellableKeys

Next ==
    \/ ParseBodyFails
    \/ ValidateRejects
    \/ ValidateAccepts
    \/ SpotAuth
    \/ SpotPrimaryStep
    \/ SpotPrimaryDone
    \/ SpotLoopStep
    \/ SpotLoopDone
    \/ FullFeedUrlMissing
    \/ FullFeedFails
    \/ FullFeedNotArray
    \/ FullFeedLoaded
    \/ FullNothingToCheck
    \/ FullLoadNyce
    \/ FullAuthOk
    \/ FullAuthFails
    \/ FullNoOverlap
    \/ FullEnterLoop
    \/ FullLoopSkip
    \/ FullPrimary
    \/ FullCatalog
    \/ FullLoopDone
    \/ Complete
    \/ FatalCatch

Spec == Init /\ [][Next]_vars

\* The handler is one async function: once an awaited upstream request has
\* returned or failed, its continuation runs. Every step of Next is such a
\* continuation, so a step that stays enabled is eventually taken.
FairSpec == Spec /\ WF_vars(Next)

\* a natural number that bounds the steps the run can still take: the position
\* in the handler, then the iterations its current loop has left
Stage ==
    CASE pc = "start" -> 9
      [] pc \in {"spotAuth", "fullFeed"} -> 8
      [] pc = "fullFilter" -> 6
      [] pc = "fullAuth" -> 5
      [] pc = "fullOverlap" -> 4
      [] pc = "spotPrimary" -> 3
      [] pc \in {"spotLoop", "fullLoop", "fullCatalog"} -> 2
      [] pc \in {"complete", "catch"} -> 1
      [] OTHER -> 0
LoopLeft ==
    CASE pc \in {"spotPrimary", "spotLoop"} -> Len(psids) + 1 - i
      [] pc = "fullLoop" -> 2 * (Len(notSellablePsids) + 1 - i)
      [] pc = "fullCatalog" -> 2 * (Len(notSellablePsids) + 1 - i) - 1
      [] OTHER -> 0
StepsLeft == Stage * (2 * (MaxPsids + MaxFeed) + 3) + LoopLeft

\* C22: if every upstream request eventually returns or fails, every run over a
\* finite candidate list eventually emits a terminal event and closes the
\* stream, and stays there. In finite-run form: until the stream is closed a
\* step is always enabled (fairness lets it happen), every step lowers the
\* natural number StepsLeft, the stream is closed only after a terminal event
\* and nothing happens once it is closed.
C22_EventuallyTerminal ==
    /\ [](/\ StepsLeft \in Nat
          /\ LoopLeft <= 2 * (MaxPsids + MaxFeed) + 2
          /\ ~closed => ENABLED Next
          /\ closed => /\ pc = "done" /\ ~ENABLED Next
                       /\ Len(events) > 0 /\ IsTerminal(Last(events)))
    /\ [][StepsLeft' < StepsLeft]_vars

C22_Witness ==
    /\ closed /\ pc = "done" /\ mode = "full" /\ Len(results) = 2
    /\ Last(events).type = "complete"

\* ------------------------------------------------- classifier on its own
\* One call of analyzeStockFull / analyzeStockSpot on a snapshot drawn by the
\* initial state; the handler's variables stay idle.
runVars == <<bodyOk, mode, psidsOk, psids, hasNyce, nyce, feedUrlSet, i, events, closed,
             results, errors, reqLog, feed, feedSchema, fluentMap, fluentStock, thrownFetch,
             processedCount, skippedCount, itemsWithUnallocatedStock, cursor, hasNextPage,
             wire, buffer, handled, cancelled, served, batchPromises>>

\* catalog quantities: none, one, many
CtValues == {0, 1, MaxStock}
\* physical stock above on-hand: none, at and just over the backlog threshold
StagingValues == {0, 10, 11}
\* a secondary record (live query shape), or none
Articles ==
    {NoArticle} \cup
    {[articleId |-> "k1", onHandQty |-> h, inOrderQty |-> o, physicalQty |-> h + e,
      stoppedQty |-> 0, allocatedQty |-> 0, present |-> TRUE] :
        h \in 0..MaxStock, o \in 0..MaxStock, e \in StagingValues}
FullSnapshots ==
    {[kind |-> "full", commerceToolsStock |-> c, fluentStock |-> f, nyceArticle |-> a] :
        c \in CtValues, f \in 0..MaxStock, a \in Articles}
SpotSnapshots ==
    {[kind |-> "spot", commerceToolsStock |-> c, fluentStock |-> f, nyceArticle |-> NoArticle] :
        c \in 0..MaxStock, f \in 0..MaxStock}

ClsInit ==
    /\ snapshot \in FullSnapshots \cup SpotSnapshots
    /\ verdict = NoVerdict
    /\ ScanIdle /\ ClientIdle /\ Connected /\ NoneServed /\ NoBatch
    /\ pc = "classify"
    /\ bodyOk = TRUE /\ mode = snapshot.kind /\ psidsOk = TRUE /\ psids = <<>>
    /\ hasNyce = FALSE /\ nyce = EmptyMap /\ feedUrlSet = TRUE
    /\ i = 0 /\ events = <<>> /\ closed = FALSE /\ results = <<>> /\ errors = <<>>
    /\ reqLog = <<>> /\ feed = <<>> /\ feedSchema = "cap" /\ fluentMap = EmptyMap
    /\ fluentStock = 0 /\ thrownFetch = FALSE
    /\ processedCount = 0 /\ skippedCount = 0 /\ itemsWithUnallocatedStock = 0

ClassifyFull ==
    /\ pc = "classify" /\ snapshot.kind = "full"
    /\ verdict' = analyzeStockFull("k1", snapshot.commerceToolsStock, snapshot.fluentStock,
                                   snapshot.nyceArticle)
    /\ pc' = "classified"
    /\ UNCHANGED <<runVars, snapshot>>

ClassifySpot ==
    /\ pc = "classify" /\ snapshot.kind = "spot"
    /\ verdict' = analyzeStockSpot("k1", snapshot.commerceToolsStock, snapshot.fluentStock)
    /\ pc' = "classified"
    /\ UNCHANGED <<runVars, snapshot>>

ClsNext == ClassifyFull \/ ClassifySpot

SpecClassify == ClsInit /\ [][ClsNext]_vars

\* ------------------------------------------------ classifier properties
ClassifiedFull == pc = "classified" /\ snapshot.kind = "full"
ClassifiedSpot == pc = "classified" /\ snapshot.kind = "spot"
SnapCt == snapshot.commerceToolsStock
SnapPrimary == snapshot.fluentStock
SnapUnallocated == snapshot.nyceArticle.onHandQty - snapshot.nyceArticle.inOrderQty
SnapSyncDiff == SnapUnallocated - SnapPrimary
Notes == Range(verdict.details)
Rank(st) == CASE st = "ok" -> 0 [] st = "warning" -> 1 [] st = "issue" -> 2
\* base severity of the category the result carries
BaseSeverity == IF verdict.analysis = "EJ INLEVERAT - DATA OK" THEN "ok" ELSE "issue"

\* C11: the full-mode classifier assigns the category of the first matching row:
\* (>0,>0,>0) block; (0,>0,>0) sync problem; (0,0,>0) inventory sync or sold out;
\* (0,0,0) consistent at zero; anything else, negative unallocated included,
\* unclassified.
C11_FullMatrix ==
    ClassifiedFull =>
        verdict.analysis =
            (CASE SnapCt > 0 /\ SnapPrimary > 0 /\ SnapUnallocated > 0 -> "TROLIGTVIS EN SPARR"
               [] SnapCt = 0 /\ SnapPrimary > 0 /\ SnapUnallocated > 0 -> "TROLIGTVIS SYNKPROBLEM"
               [] SnapCt = 0 /\ SnapPrimary = 0 /\ SnapUnallocated > 0 -> "LAGERSYNKPROBLEM ELLER UTSALT"
               [] SnapCt = 0 /\ SnapPrimary = 0 /\ SnapUnallocated = 0 -> "EJ INLEVERAT - DATA OK"
               [] OTHER -> "INVESTIGATE")

C11_Witness ==
    /\ ClassifiedFull /\ SnapCt = 0 /\ SnapPrimary = 0 /\ SnapUnallocated < 0
    /\ verdict.analysis = "INVESTIGATE"

\* C12: a snapshot with catalog 0, primary 0 and unallocated 0 is classified
\* 'not delivered - data consistent' with final severity ok.
C12_ZeroIsOk ==
    ClassifiedFull /\ SnapCt = 0 /\ SnapPrimary = 0 /\ SnapUnallocated = 0 =>
        verdict.analysis = "EJ INLEVERAT - DATA OK" /\ verdict.status = "ok"

C12_Witness ==
    /\ ClassifiedFull /\ SnapCt = 0 /\ SnapPrimary = 0 /\ SnapUnallocated = 0
    /\ snapshot.nyceArticle.onHandQty > 0 /\ verdict.status = "ok"

\* C13: the final severity is the matrix severity overwritten by the literal
\* thresholds on syncDiff = unallocated - primary: > 10 issue, 1..10 warning
\* (also when the matrix said issue), <= 0 the matrix severity.
C13_LiteralThresholds ==
    ClassifiedFull =>
        verdict.status =
            (IF SnapSyncDiff > 10 THEN "issue"
             ELSE IF SnapSyncDiff > 0 THEN "warning"
             ELSE IF SnapCt = 0 /\ SnapPrimary = 0 /\ SnapUnallocated = 0 THEN "ok"
             ELSE "issue")

C13_Witness ==
    /\ ClassifiedFull /\ SnapCt = MaxStock /\ SnapPrimary = 7 /\ SnapUnallocated = 12
    /\ verdict.analysis = "TROLIGTVIS EN SPARR" /\ verdict.status = "warning"

\* C14 (as stated): the final severity is never lower than the base severity of
\* the matrix row that matched.
C14_OnlyRaises ==
    ClassifiedFull => Rank(verdict.status) >= Rank(BaseSeverity)

\* C14 (amended): the final severity is lower than the base severity of the
\* matched row only when the base is issue and 0 < syncDiff <= 10, and it is
\* then warning; it is ok exactly for the zero/zero/zero row.
C14_LowersOnlyToWarning ==
    ClassifiedFull =>
        /\ Rank(verdict.status) < Rank(BaseSeverity) =>
              /\ BaseSeverity = "issue" /\ verdict.status = "warning"
              /\ SnapSyncDiff > 0 /\ SnapSyncDiff <= 10
        /\ verdict.status = "ok" <=> BaseSeverity = "ok"

C14_Witness ==
    /\ ClassifiedFull /\ BaseSeverity = "issue" /\ verdict.status = "warning"
    /\ verdict.analysis = "LAGERSYNKPROBLEM ELLER UTSALT"

\* C15: the supplementary notes are appended exactly when a secondary record
\* exists, whatever the category: staging backlog iff physical - onHand > 10;
\* with d = unallocated - primary, surplus iff d > 10, minor variance iff
\* 0 < d <= 10, reverse variance iff d < -10, none of the three otherwise.
C15_SupplementaryNotes ==
    ClassifiedFull =>
        LET a == snapshot.nyceArticle
            d == SnapSyncDiff
        IN  IF a.present
            THEN /\ "STAGING BACKLOG" \in Notes <=> a.physicalQty - a.onHandQty > 10
                 /\ "SYNC VARIANCE" \in Notes <=> d > 10
                 /\ "MINOR VARIANCE" \in Notes <=> (0 < d /\ d <= 10)
                 /\ "REVERSE VARIANCE" \in Notes <=> d < -10
            ELSE Notes \cap {"STAGING BACKLOG", "SYNC VARIANCE", "MINOR VARIANCE",
                             "REVERSE VARIANCE"} = {}

C15_Witness ==
    /\ ClassifiedFull /\ snapshot.nyceArticle.present
    /\ verdict.analysis = "INVESTIGATE"
    /\ {"STAGING BACKLOG", "REVERSE VARIANCE"} \subseteq Notes

\* C16: the spot classifier, with diff = |catalog - primary|: both > 0 and
\* diff = 0 perfectly synced/ok; 0 < diff <= 5 in sync/ok; diff > 5 sync
\* variance/issue; catalog 0 and primary > 0 catalog not updated/issue with the
\* note on the primary quantity; catalog > 0 and primary 0 unexpected/issue;
\* both 0 no stock/ok.
C16_SpotMatrix ==
    ClassifiedSpot =>
        LET c == SnapCt
            f == SnapPrimary
            diff == IF c > f THEN c - f ELSE f - c
        IN  /\ c > 0 /\ f > 0 /\ diff = 0 =>
                 verdict.analysis = "PERFECTLY SYNCED" /\ verdict.status = "ok"
            /\ c > 0 /\ f > 0 /\ 0 < diff /\ diff <= 5 =>
                 verdict.analysis = "IN SYNC" /\ verdict.status = "ok"
            /\ c > 0 /\ f > 0 /\ diff > 5 =>
                 verdict.analysis = "SYNC VARIANCE" /\ verdict.status = "issue"
            /\ c = 0 /\ f > 0 =>
                 /\ verdict.analysis = "SYNC ISSUE - CommerceTools not updated"
                 /\ verdict.status = "issue"
                 /\ "Fluent has units but CommerceTools shows 0" \in Notes
            /\ c > 0 /\ f = 0 =>
                 /\ verdict.analysis = "UNEXPECTED - CT has stock but Fluent shows 0"
                 /\ verdict.status = "issue"
            /\ c = 0 /\ f = 0 =>
                 verdict.analysis = "NO STOCK" /\ verdict.status = "ok"

C16_Witness ==
    /\ ClassifiedSpot /\ SnapCt = 7 /\ SnapPrimary = 12
    /\ verdict.analysis = "IN SYNC" /\ verdict.status = "ok"

\* ------------------------------------- the non-streaming endpoint, full mode
\* POST of src/app/api/stock-check/route.ts with checkMode = 'full': one JSON
\* response {results, errors}. It reads the lower-case feed fields, walks the
\* psids of the request and asks the primary source once for the whole location.
BatchPcs == {"batchStart", "batchFeed", "batchFluent", "batchLoop", "batchDone", "batchError"}

\* p.id and p.availability of a feed record: only the lower-case spelling is read
BatchPId(p, schema) == IF schema = "lower" THEN p.key ELSE Undefined
BatchPAvailability(p, schema) == IF schema = "lower" THEN p.avail ELSE Undefined

\* googleMap.get(psid)?.availability === 'in_stock'; the Map keeps the last
\* record of an id
BatchGoogleSellable(psid) ==
    LET at == {j \in 1..Len(feed) : BatchPId(feed[j], feedSchema) = psid}
    IN  /\ at # {}
        /\ BatchPAvailability(feed[CHOOSE j \in at : \A k \in at : k <= j], feedSchema) = "in_stock"

\* the record pushed for a key the feed map reports as in_stock
BatchSkipped(psid) ==
    [psid |-> psid, googleSellable |-> "true", commerceToolsStock |-> 0, fluentStock |-> 0,
     nyceStock |-> NoArticle, status |-> "ok",
     analysis |-> "Sellable in Google Feed - skipped in Full Check mode",
     details |-> <<"Full Check only analyzes items not sellable in Google Feed">>]

BatchAddNyceInsights(details, nycePhysical, nyceOnHand, nyceInOrder, nyceStoppedQty, nyceAvailable, fluent) ==
    LET d1 == IF nycePhysical > nyceOnHand /\ nycePhysical - nyceOnHand > 10
              THEN Append(details, "STAGING BACKLOG") ELSE details
        d2 == IF nyceStoppedQty > 0 THEN Append(d1, "STOPPED STOCK") ELSE d1
        d3 == IF nyceInOrder < 5 /\ nyceStoppedQty > 20
              THEN Append(d2, "POSSIBLE INSPECTION") ELSE d2
        difference == Abs(nyceAvailable - fluent)
    IN  IF difference > 5
        THEN d3 \o <<"SYNC VARIANCE", "Note: Fluent is typically ahead">>
        ELSE d3

\* analyzeStockFull of the non-streaming route: the matrix reads nyceOnHand, the
\* status is the constant 'issue'
BatchAnalyzeStockFull(psid, commerceToolsStock, fluent, nyceArticle) ==
    LET nyceOnHand == nyceArticle.onHandQty
        nyceInOrder == nyceArticle.inOrderQty
        nycePhysical == nyceArticle.physicalQty
        nyceStoppedQty == nyceArticle.stoppedQty
        nyceAvailable == nyceOnHand - nyceInOrder
        analysis ==
            IF commerceToolsStock > 0 /\ fluent > 0 /\ nyceOnHand > 0
            THEN "TROLIGTVIS EN SPARR"
            ELSE IF commerceToolsStock = 0 /\ fluent > 0 /\ nyceOnHand > 0
            THEN "TROLIGTVIS SYNKPROBLEM"
            ELSE IF commerceToolsStock = 0 /\ fluent = 0 /\ nyceOnHand > 0
            THEN "LAGERSYNKPROBLEM ELLER UTSALT"
            ELSE IF commerceToolsStock = 0 /\ fluent = 0 /\ nyceOnHand = 0
            THEN "EJ INLEVERAT?"
            ELSE "INVESTIGATE"
        d0 == <<"Google Feed: NOT SELLABLE", analysis>>
        details == IF nyceArticle.present
                   THEN BatchAddNyceInsights(d0, nycePhysical, nyceOnHand, nyceInOrder,
                                             nyceStoppedQty, nyceAvailable, fluent)
                   ELSE d0
    IN  [psid |-> psid, googleSellable |-> "false", commerceToolsStock |-> commerceToolsStock,
         fluentStock |-> fluent, nyceStock |-> nyceArticle, status |-> "issue",
         analysis |-> analysis, details |-> details]

\* answers of the catalog lookup: a product with the sku, none, or a throw
\* (transport, body that is not JSON or has no products list)
BatchCatalogKinds == {"match", "noMatch", "throw"}
\* the map built from all pages of the location's inventory: no position at
\* all, or one for every key
BatchFluentMaps == UNION {[S -> RunQty] : S \in {{}, Keys}}

BatchInit ==
    /\ bodyOk \in BOOLEAN
    /\ mode = "full"
    /\ psidsOk \in BOOLEAN
    /\ psids \in SeqsUpTo(Keys, MaxPsids)
    /\ hasNyce \in BOOLEAN
    /\ nyce \in NyceMaps
    /\ ~bodyOk => ~psidsOk /\ ~hasNyce
    /\ ~psidsOk => psids = <<>>
    /\ ~hasNyce => nyce = EmptyMap
    /\ feedUrlSet = TRUE
    /\ pc = "batchStart"
    /\ i = 0 /\ events = <<>> /\ closed = FALSE /\ results = <<>> /\ errors = <<>>
    /\ reqLog = <<>> /\ feed = <<>> /\ feedSchema = "cap" /\ fluentMap = EmptyMap
    /\ fluentStock = 0 /\ thrownFetch = FALSE
    /\ processedCount = 0 /\ skippedCount = 0 /\ itemsWithUnallocatedStock = 0
    /\ snapshot = NoSnapshot /\ verdict = NoVerdict
    /\ ScanIdle /\ ClientIdle /\ Connected /\ NoneServed /\ NoBatch

batchIdle == <<inputVars, events, reqLog, fluentStock, thrownFetch, countVars>>

\* request.json() rejects: the outer catch answers 500 'Internal server error'
BatchParseFails ==
    /\ pc = "batchStart" /\ ~bodyOk
    /\ closed' = TRUE /\ pc' = "batchError"
    /\ UNCHANGED <<batchIdle, i, results, errors, feed, feedSchema, fluentMap>>

\* checkMode === 'full' && !nyceCsvData: 400
BatchValidateRejects ==
    /\ pc = "batchStart" /\ bodyOk /\ ~hasNyce
    /\ closed' = TRUE /\ pc' = "batchError"
    /\ UNCHANGED <<batchIdle, i, results, errors, feed, feedSchema, fluentMap>>

BatchValidateAccepts ==
    /\ pc = "batchStart" /\ bodyOk /\ hasNyce
    /\ pc' = "batchFeed"
    /\ UNCHANGED <<batchIdle, i, closed, results, errors, feed, feedSchema, fluentMap>>

\* the feed fetch or its .json() throws, or the body is no list:
\* errors.push('Failed to fetch Google Feed'); 500 with results []
BatchFeedFails ==
    /\ pc = "batchFeed"
    /\ errors' = Append(errors, [tag |-> "feedFailed", key |-> "", idx |-> 0])
    /\ closed' = TRUE /\ pc' = "batchError"
    /\ UNCHANGED <<batchIdle, i, results, feed, feedSchema, fluentMap>>

BatchFeedLoaded ==
    /\ pc = "batchFeed"
    /\ \E fd \in FeedSeqs, sc \in {"cap", "lower"} :
        /\ feed' = fd
        /\ feedSchema' = sc
    /\ pc' = "batchFluent"
    /\ UNCHANGED <<batchIdle, i, closed, results, errors, fluentMap>>

\* getFluentToken() and getFluentInventory() succeed
BatchFluentOk ==
    /\ pc = "batchFluent"
    /\ fluentMap' \in BatchFluentMaps
    /\ pc' = "batchLoop" /\ i' = 1
    /\ UNCHANGED <<batchIdle, closed, results, errors, feed, feedSchema>>

\* either throws: errors.push('Failed to fetch Fluent inventory'), empty map
BatchFluentFails ==
    /\ pc = "batchFluent"
    /\ errors' = Append(errors, [tag |-> "fluentFailed", key |-> "", idx |-> 0])
    /\ fluentMap' = EmptyMap
    /\ pc' = "batchLoop" /\ i' = 1
    /\ UNCHANGED <<batchIdle, closed, results, feed, feedSchema>>

\* `for (const psid of psids)` on a body without psids throws: outer catch, 500
BatchPsidsMissing ==
    /\ pc = "batchLoop" /\ ~psidsOk
    /\ closed' = TRUE /\ pc' = "batchError"
    /\ UNCHANGED <<batchIdle, i, results, errors, feed, feedSchema, fluentMap>>

\* variant: a sellable key is passed over without a record
BatchSellable_Omit ==
    /\ pc = "batchLoop" /\ psidsOk /\ i <= Len(psids)
    /\ BatchGoogleSellable(psids[i])
    /\ i' = i + 1
    /\ UNCHANGED <<batchIdle, pc, closed, results, errors, feed, feedSchema, fluentMap>>

\* if (googleSellable) { results.push({... status: 'ok', analysis: 'Sellable in
\* Google Feed - skipped in Full Check mode' ...}); continue }
BatchSellable ==
    /\ pc = "batchLoop" /\ psidsOk /\ i <= Len(psids)
    /\ BatchGoogleSellable(psids[i])
    /\ results' = Append(results, [idx |-> i, r |-> BatchSkipped(psids[i])])
    /\ i' = i + 1
    /\ UNCHANGED <<batchIdle, pc, closed, errors, feed, feedSchema, fluentMap>>

\* catalog lookup, analyzeStockFull, results.push; a throw becomes a note
BatchAnalyse ==
    /\ pc = "batchLoop" /\ psidsOk /\ i <= Len(psids)
    /\ ~BatchGoogleSellable(psids[i])
    /\ \E c \in BatchCatalogKinds, q \in RunQty \cup {0} :
        LET psid == psids[i]
            commerceToolsStock == IF c = "match" THEN q ELSE 0
            fluent == IF psid \in DOMAIN fluentMap THEN fluentMap[psid] ELSE 0
            nyceArticle == IF psid \in DOMAIN nyce THEN NyceArticleOf(psid, nyce[psid])
                           ELSE NoArticle
        IN  /\ c = "match" <=> q # 0
            /\ IF c = "throw"
               THEN /\ errors' = Append(errors, [tag |-> "failedToProcess", key |-> psid, idx |-> i])
                    /\ UNCHANGED results
               ELSE /\ results' = Append(results,
                          [idx |-> i,
                           r |-> BatchAnalyzeStockFull(psid, commerceToolsStock, fluent, nyceArticle)])
                    /\ UNCHANGED errors
    /\ i' = i + 1
    /\ UNCHANGED <<batchIdle, pc, closed, feed, feedSchema, fluentMap>>

\* return NextResponse.json({results, errors})
BatchRespond ==
    /\ pc = "batchLoop" /\ psidsOk /\ i > Len(psids)
    /\ closed' = TRUE /\ pc' = "batchDone"
    /\ UNCHANGED <<batchIdle, i, results, errors, feed, feedSchema, fluentMap>>

BatchNext ==
    \/ BatchParseFails
    \/ BatchValidateRejects
    \/ BatchValidateAccepts
    \/ BatchFeedFails
    \/ BatchFeedLoaded
    \/ BatchFluentOk
    \/ BatchFluentFails
    \/ BatchPsidsMissing
    \/ BatchSellable
    \/ BatchAnalyse
    \/ BatchRespond

\* a run of either endpoint
EndpointsInit == Init \/ BatchInit
EndpointsNext == Next \/ BatchNext
SpecEndpoints == EndpointsInit /\ [][EndpointsNext]_vars

\* ------------------------------------------------- properties of both endpoints
IsBatch == pc \in BatchPcs
\* the feed lists the key, and lists it as in_stock wherever it lists it
FeedReportsSellable(k) ==
    /\ \E j \in 1..Len(feed) : feed[j].key = k
    /\ \A j \in 1..Len(feed) : feed[j].key = k => feed[j].avail = "in_stock"
ResultsOf(idx) == {j \in 1..Len(results) : results[j].idx = idx}

MaxEdges == 1
\* product references as the upstream spells them, and the keys asked for
ScanRefs == {"abc123", "ABC123", "k2"}
ScanTargets == {"ABC123", "k2"}
ScanCursors == {"c1", "c2"}
ScanQty == RunQty \cup {0}
ScanEdges == [productRef : ScanRefs, onHand : ScanQty, cursor : ScanCursors]
ScanPages == SeqsUpTo(ScanEdges, MaxEdges)

\* inventoryMap.set(key, value)
MapSet(m, key, value) == [k \in DOMAIN m \cup {key} |-> IF k = key THEN value ELSE m[k]]

RECURSIVE ApplyEdges(_, _)
\* edges.forEach(edge => inventoryMap.set(edge.node.productRef, edge.node.onHand))
ApplyEdges(m, edges) ==
    IF edges = <<>> THEN m
    ELSE ApplyEdges(MapSet(m, Head(edges).productRef, Head(edges).onHand), Tail(edges))

\* fluentMap.get(psid) || 0
FluentLookup(m, psid) == IF psid \in DOMAIN m THEN m[psid] ELSE 0

scanIdle == <<bodyOk, mode, psidsOk, psids, hasNyce, nyce, feedUrlSet, snapshot, verdict,
              wire, buffer, handled, cancelled, served, batchPromises,
              events, closed, results, reqLog, feed, feedSchema, thrownFetch, countVars>>

\* let cursor = null; let hasNextPage = true
ScanInit ==
    /\ bodyOk = TRUE /\ mode = "full" /\ psidsOk = TRUE
    /\ \E t \in ScanTargets : psids = <<t>>
    /\ hasNyce = TRUE /\ nyce = EmptyMap /\ feedUrlSet = TRUE
    /\ pc = "scanPage"
    /\ cursor = "null" /\ hasNextPage = TRUE
    /\ i = 0 /\ events = <<>> /\ closed = FALSE /\ results = <<>> /\ errors = <<>>
    /\ reqLog = <<>> /\ feed = <<>> /\ feedSchema = "lower" /\ fluentMap = EmptyMap
    /\ fluentStock = 0 /\ thrownFetch = FALSE
    /\ processedCount = 0 /\ skippedCount = 0 /\ itemsWithUnallocatedStock = 0
    /\ snapshot = NoSnapshot /\ verdict = NoVerdict
    /\ ClientIdle /\ Connected /\ NoneServed /\ NoBatch

\* one turn of `while (hasNextPage)`: the page is fetched, its edges are stored,
\* the cursor moves to the last edge and hasNextPage is read from the page
getFluentInventoryPage ==
    /\ pc = "scanPage" /\ hasNextPage
    /\ \E edges \in ScanPages, more \in BOOLEAN :
        /\ fluentMap' = ApplyEdges(fluentMap, edges)
        /\ cursor' = IF edges = <<>> THEN cursor ELSE Last(edges).cursor
        /\ hasNextPage' = more
    /\ UNCHANGED <<scanIdle, pc, i, errors, fluentStock>>

\* !response.ok, a rejected fetch or a body without data.inventoryPositions:
\* the scan throws; POST pushes 'Failed to fetch Fluent inventory' and goes on
\* with an empty map
getFluentInventoryFails ==
    /\ pc = "scanPage" /\ hasNextPage
    /\ errors' = Append(errors, [tag |-> "fluentFailed", key |-> "", idx |-> 0])
    /\ fluentMap' = EmptyMap
    /\ pc' = "scanLookup"
    /\ UNCHANGED <<scanIdle, i, cursor, hasNextPage, fluentStock>>

\* the loop ends: return inventoryMap
getFluentInventoryReturn ==
    /\ pc = "scanPage" /\ ~hasNextPage
    /\ pc' = "scanLookup"
    /\ UNCHANGED <<scanIdle, i, cursor, hasNextPage, errors, fluentMap, fluentStock>>

\* const fluentStock = fluentMap.get(psid) || 0
ScanLookup ==
    /\ pc = "scanLookup"
    /\ fluentStock' = FluentLookup(fluentMap, psids[1])
    /\ pc' = "scanDone"
    /\ UNCHANGED <<scanIdle, i, cursor, hasNextPage, errors, fluentMap>>

ScanNext ==
    \/ getFluentInventoryPage
    \/ getFluentInventoryFails
    \/ getFluentInventoryReturn
    \/ ScanLookup

SpecScan == ScanInit /\ [][ScanNext]_vars
\* every awaited page request returns or fails, and the code after it runs
FairScan == SpecScan /\ WF_vars(ScanNext)

\* C23: the bulk scan terminates, after at most a fixed number of page requests,
\* even when the upstream reports hasNextPage = true on every page (pages with
\* no edges, which leave the cursor unchanged, included).
C23_ScanTerminates == <>(pc # "scanPage")

\* String.prototype.toLowerCase on the references of the model
ToLowerCase(k) == IF k = "ABC123" THEN "abc123" ELSE k

\* C24: matching of scanned nodes to target keys is case-insensitive: a target
\* key obtains the on-hand value of a scanned node whose productRef equals it up
\* to case ("ABC123" obtains the value of "abc123").
C24_CaseInsensitiveMatch ==
    pc = "scanDone" =>
        LET matching == {r \in DOMAIN fluentMap : ToLowerCase(r) = ToLowerCase(psids[1])}
        IN  matching # {} => fluentStock \in {fluentMap[r] : r \in matching}

\* ------------------------------------------------ the client's stream reader
\* handleSubmit of src/app/page.tsx reading what sendEvent of the streaming
\* route wrote. The body is a sequence of characters; "d", ":" stand for the
\* prefix `data: ` and a JSON text is the two characters Open(t), Close(t) of its
\* event type t, so that a read can end inside the prefix or inside the JSON.
\* most frames of one response
MaxFrames == 2
FrameTypes == {"progress", "result", "complete"}
Open(t) == CASE t = "progress" -> "{progress" [] t = "result" -> "{result" [] OTHER -> "{complete"
Close(t) == CASE t = "progress" -> "progress}" [] t = "result" -> "result}" [] OTHER -> "complete}"

\* `data: ${JSON.stringify({ type, ...data })}\n\n`
sendEventText(t) == <<"d", ":", Open(t), Close(t), "\n", "\n">>

RECURSIVE ResponseBody(_)
\* the frames enqueued, one after the other
ResponseBody(evs) ==
    IF evs = <<>> THEN <<>> ELSE sendEventText(Head(evs)) \o ResponseBody(Tail(evs))

RECURSIVE SplitLines(_)
\* buffer.split('\n')
SplitLines(str) ==
    IF \A k \in 1..Len(str) : str[k] # "\n" THEN <<str>>
    ELSE LET nl == CHOOSE k \in 1..Len(str) : str[k] = "\n" /\ \A j \in 1..(k - 1) : str[j] # "\n"
         IN  <<SubSeq(str, 1, nl - 1)>> \o SplitLines(SubSeq(str, nl + 1, Len(str)))

\* line.startsWith('data: ') and line.slice(6).trim()
StartsWithData(line) == Len(line) >= 2 /\ line[1] = "d" /\ line[2] = ":"
JsonStr(line) == SubSeq(line, 3, Len(line))
\* JSON.parse: the event type of a whole JSON text, a SyntaxError otherwise
JSONparse(jsonStr) ==
    IF \E t \in FrameTypes : jsonStr = <<Open(t), Close(t)>>
    THEN CHOOSE t \in FrameTypes : jsonStr = <<Open(t), Close(t)>>
    ELSE "SyntaxError"

RECURSIVE Parsed(_)
\* `for (const line of lines)`: what JSON.parse is called on and returns
Parsed(lines) ==
    IF lines = <<>> THEN <<>>
    ELSE (IF StartsWithData(Head(lines)) /\ JsonStr(Head(lines)) # <<>>
          THEN <<JSONparse(JsonStr(Head(lines)))>> ELSE <<>>) \o Parsed(Tail(lines))

clientIdle == <<bodyOk, mode, psidsOk, psids, hasNyce, nyce, feedUrlSet, snapshot, verdict,
                cursor, hasNextPage, cancelled, served, batchPromises, i,
                events, closed, results, reqLog, feed, feedSchema,
                fluentMap, fluentStock, thrownFetch, countVars>>

\* the response has been written; const tempErrors = []; let buffer = ''
ClientInit ==
    /\ events \in SeqsUpTo(FrameTypes, MaxFrames)
    /\ wire = ResponseBody(events)
    /\ buffer = <<>> /\ handled = <<>> /\ errors = <<>>
    /\ pc = "reading"
    /\ bodyOk = TRUE /\ mode = "spot" /\ psidsOk = TRUE /\ psids = <<>>
    /\ hasNyce = FALSE /\ nyce = EmptyMap /\ feedUrlSet = TRUE
    /\ i = 0 /\ closed = TRUE /\ results = <<>>
    /\ reqLog = <<>> /\ feed = <<>> /\ feedSchema = "cap" /\ fluentMap = EmptyMap
    /\ fluentStock = 0 /\ thrownFetch = FALSE
    /\ processedCount = 0 /\ skippedCount = 0 /\ itemsWithUnallocatedStock = 0
    /\ snapshot = NoSnapshot /\ verdict = NoVerdict
    /\ ScanIdle /\ Connected /\ NoneServed /\ NoBatch

\* variant: nothing is kept between reads, every piece of a read is a line
ReaderRead_NoBuffer ==
    /\ pc = "reading" /\ wire # <<>>
    /\ \E n \in 1..Len(wire) :
        LET lines == SplitLines(SubSeq(wire, 1, n))
            parsed == Parsed(lines)
        IN  /\ buffer' = <<>>
            /\ handled' = handled \o SelectSeq(parsed, LAMBDA x : x # "SyntaxError")
            /\ errors' = errors \o SelectSeq(parsed, LAMBDA x : x = "SyntaxError")
            /\ wire' = SubSeq(wire, n + 1, Len(wire))
    /\ UNCHANGED <<clientIdle, pc>>

\* one reader.read() that returns a chunk: buffer += chunk; lines =
\* buffer.split('\n'); buffer = lines.pop(); every other line is handled, a
\* JSON.parse that throws pushes a 'Stream parsing error' onto tempErrors
ReaderRead ==
    /\ pc = "reading" /\ wire # <<>>
    /\ \E n \in 1..Len(wire) :
        LET lines == SplitLines(buffer \o SubSeq(wire, 1, n))
            parsed == Parsed(SubSeq(lines, 1, Len(lines) - 1))
        IN  /\ buffer' = Last(lines)
            /\ handled' = handled \o SelectSeq(parsed, LAMBDA x : x # "SyntaxError")
            /\ errors' = errors \o SelectSeq(parsed, LAMBDA x : x = "SyntaxError")
            /\ wire' = SubSeq(wire, n + 1, Len(wire))
    /\ UNCHANGED <<clientIdle, pc>>

\* reader.read() returns done: the loop ends, what is left in buffer is dropped
ReaderDone ==
    /\ pc = "reading" /\ wire = <<>>
    /\ pc' = "clientDone"
    /\ UNCHANGED <<clientIdle, wire, buffer, handled, errors>>

ClientNext == ReaderRead \/ ReaderDone

SpecClient == ClientInit /\ [][ClientNext]_vars

\* the characters read so far, and the frames whose `data: ...` line, up to its
\* line end, lies within them
ReadSoFar == SubSeq(ResponseBody(events), 1, Len(ResponseBody(events)) - Len(wire))
LineReceived(k) == Len(ResponseBody(SubSeq(events, 1, k))) - 1 <= Len(ReadSoFar)
FramesReceived == Cardinality({k \in 1..Len(events) : LineReceived(k)})

\* C26: however the characters of the event stream are split across reads, the
\* client handles exactly the events the server emitted, each once and in
\* order, and never hands an incomplete JSON text to the parser: it has always
\* handled exactly the events whose line it has received in full, the rest of
\* what it has read waits in the buffer, no parse error is recorded, and at the
\* end it has handled every event.
C26_FramingIndependentOfReads ==
    /\ errors = <<>>
    /\ handled = SubSeq(events, 1, FramesReceived)
    /\ \E k \in 0..Len(ReadSoFar) :
          /\ buffer = SubSeq(ReadSoFar, k + 1, Len(ReadSoFar))
          /\ k > 0 => ReadSoFar[k] = "\n"
          /\ \A j \in 1..Len(buffer) : buffer[j] # "\n"
    /\ pc = "clientDone" => handled = events /\ buffer = <<>>

C26_Witness ==
    /\ pc = "reading" /\ Len(handled) = 1 /\ Len(buffer) = 3 /\ Len(events) = 2

\* ------------------------------------------------------ caller disconnects
\* The stream has no cancel handler and the handler never looks at the request's
\* abort signal. Once the caller is gone the stream is cancelled and
\* controller.enqueue throws, so the run goes on to its next sendEvent and no
\* further: an event sent inside the per-key try is caught by the per-key catch,
\* whose own sendEvent throws into the outer catch, whose sendEvent throws out
\* of start(). Only a request that precedes that sendEvent is still issued: the
\* feed fetch, the authentication, or the catalog lookup of the key whose
\* primary request was already made.
requestInFlight(at) ==
    CASE at = "fullFeed" -> <<Req("feed", "", 0, "unread")>>
      [] at \in {"fullAuth", "spotAuth"} -> <<Req("auth", "", 0, "unread")>>
      [] at = "fullCatalog" -> <<Req("catalog", notSellablePsids[i], i, "unread")>>
      [] OTHER -> <<>>

runVarsNoLog == <<bodyOk, mode, psidsOk, psids, hasNyce, nyce, feedUrlSet, snapshot, verdict,
                  cursor, hasNextPage, wire, buffer, handled, served, batchPromises, i, events, closed,
                  results,
                  errors, feed, feedSchema, fluentMap, fluentStock, thrownFetch, countVars>>

\* variant: enqueue on the cancelled stream is silently accepted, the run goes on
Disconnect_Unnoticed ==
    /\ Connected /\ ~closed /\ pc \notin {"done", "aborted"}
    /\ cancelled' = [at |-> Len(reqLog), pc |-> pc]
    /\ UNCHANGED <<runVarsNoLog, reqLog, pc>>

\* the caller goes away while the run is at pc; the run continues up to the
\* sendEvent that throws
Disconnect ==
    /\ Connected /\ ~closed /\ pc \notin {"done", "aborted"}
    /\ cancelled' = [at |-> Len(reqLog), pc |-> pc]
    /\ reqLog' = reqLog \o requestInFlight(pc)
    /\ pc' = "aborted"
    /\ UNCHANGED runVarsNoLog

CancelNext == Next \/ Disconnect

SpecCancel == Init /\ [][CancelNext]_vars

\* requests made for candidates, before and after the caller went away
PerKeyBefore == {p \in 1..Len(reqLog) : p <= cancelled.at /\ reqLog[p].kind \in {"primary", "catalog"}}
PerKeyAfter == {p \in 1..Len(reqLog) : p > cancelled.at /\ reqLog[p].kind \in {"primary", "catalog"}}

RequestsOf(kind) == {p \in 1..Len(reqLog) : reqLog[p].kind = kind}

\* C28: nothing is retried: for each position of the candidate list at most one
\* per-key primary request and at most one catalog lookup are issued in a run,
\* whatever the outcome of the request.
C28_NoRetry ==
    \A kind \in {"primary", "catalog"} :
        \A p, q \in RequestsOf(kind) : reqLog[p].idx = reqLog[q].idx => p = q

C28_Witness ==
    /\ pc = "done" /\ mode = "spot" /\ Len(psids) = MaxPsids
    /\ \E p \in RequestsOf("primary") : reqLog[p].idx = 1 /\ reqLog[p].outcome = "throw"
    /\ \E p \in RequestsOf("catalog") : reqLog[p].idx = 1 /\ reqLog[p].outcome = "transport"
    /\ \E p \in RequestsOf("primary") : reqLog[p].idx = MaxPsids

\* C29: a run authenticates to the primary warehouse at most once, and every
\* per-key primary request of the run is made after that authentication
\* succeeded.
C29_AuthenticateOnceFirst ==
    /\ Cardinality(RequestsOf("auth")) <= 1
    /\ \A p \in RequestsOf("primary") :
          \E a \in RequestsOf("auth") : a < p /\ reqLog[a].outcome = "ok"

C29_Witness ==
    /\ pc = "done" /\ mode = "full" /\ Cardinality(RequestsOf("auth")) = 1
    /\ Cardinality(RequestsOf("primary")) = 2

\* ---------------------------------------------------------------- middleware
\* src/middleware.ts.  A path is the sequence of its segments; the cookie is the
\* value of `authenticated`, "" when the request carries none.
MaxRequests == 2
Paths == {<<>>, <<"login">>, <<"results">>, <<"api", "stock-check">>,
          <<"api", "stock-check-stream">>, <<"api", "auth", "login">>,
          <<"_next", "static", "chunk.js">>, <<"favicon.ico">>}
CookieValues == {"", "true", "false"}
LoginPath == <<"login">>

\* config.matcher: '/((?!_next/static|_next/image|favicon.ico).*)'
matcher(path) ==
    /\ ~(Len(path) >= 2 /\ path[1] = "_next" /\ path[2] \in {"static", "image"})
    /\ ~(Len(path) >= 1 /\ path[1] = "favicon.ico")

\* pathname.startsWith('/api/')
startsWithApi(path) == Len(path) >= 2 /\ path[1] = "api"

middleware(path, cookie) ==
    LET isAuthenticated == cookie = "true"
    IN  IF startsWithApi(path) THEN "next"
        ELSE IF ~isAuthenticated /\ path # LoginPath THEN "redirect:/login"
        ELSE IF isAuthenticated /\ path = LoginPath THEN "redirect:/"
        ELSE "next"

\* what the framework does with a request: the middleware runs only on matched
\* paths, every other request goes straight to its route
serve(path, cookie) == IF matcher(path) THEN middleware(path, cookie) ELSE "next"

middlewareIdle ==
    /\ bodyOk = FALSE /\ mode = "spot" /\ psidsOk = FALSE /\ psids = <<>>
    /\ hasNyce = FALSE /\ nyce = EmptyMap /\ feedUrlSet = FALSE
    /\ i = 0 /\ events = <<>> /\ closed = FALSE /\ results = <<>> /\ errors = <<>>
    /\ reqLog = <<>> /\ feed = <<>> /\ feedSchema = "lower" /\ fluentMap = EmptyMap
    /\ fluentStock = 0 /\ thrownFetch = FALSE
    /\ processedCount = 0 /\ skippedCount = 0 /\ itemsWithUnallocatedStock = 0
    /\ snapshot = NoSnapshot /\ verdict = NoVerdict
    /\ ScanIdle /\ ClientIdle /\ Connected /\ NoBatch

MiddlewareInit == pc = "serving" /\ middlewareIdle /\ NoneServed

Request ==
    /\ pc = "serving" /\ Len(served) < MaxRequests
    /\ \E path \in Paths, cookie \in CookieValues :
        served' = Append(served, [path |-> path, cookie |-> cookie,
                                  answer |-> serve(path, cookie)])
    /\ UNCHANGED <<bodyOk, mode, psidsOk, psids, hasNyce, nyce, feedUrlSet, snapshot, verdict,
                   cursor, hasNextPage, wire, buffer, handled, cancelled, batchPromises, pc, i,
                   events,
                   closed, results, errors, reqLog, feed, feedSchema, fluentMap, fluentStock,
                   thrownFetch, countVars>>

MiddlewareNext == Request

SpecMiddleware == MiddlewareInit /\ [][MiddlewareNext]_vars

\* C30: a request that does not carry the cookie authenticated=true is never
\* passed through to a path other than /login: it is redirected to /login, the
\* stock-check API paths included.
C30_PasswordProtection ==
    \A n \in 1..Len(served) :
        (served[n].cookie # "true" /\ served[n].path # LoginPath)
            => served[n].answer = "redirect:/login"

\* ----------------------------------- the non-streaming endpoint, spot mode
\* POST of src/app/api/stock-check/route.ts with a checkMode other than 'full':
\* the `else` branch. One authentication and one primary request per key, then
\* the catalog lookups in batches of batchSize run with Promise.all.
batchSize == 10
\* most upstream requests of a run that fail
MaxFailures == 1

\* what the upstream systems hold during a run
UpstreamPrimary == [k \in Keys |-> 7]
UpstreamCatalog == [k \in {"k1"} |-> 7]

\* key lists: none, one key, one key more than a batch holds
SpotKeyList(n) == [j \in 1..n |-> IF j % 2 = 1 THEN "k1" ELSE "k2"]
SpotKeyLists == {SpotKeyList(n) : n \in {0, 1, batchSize + 1}}

\* variant: a difference of exactly 5 already counts as a variance
BatchAnalyzeStockSpot_Strict(psid, commerceToolsStock, fluent) ==
    LET difference == Abs(commerceToolsStock - fluent)
        d0 == <<"Spot-check mode">>
    IN  IF commerceToolsStock > 0 /\ fluent > 0
        THEN IF difference = 0
             THEN [psid |-> psid, googleSellable |-> "null",
                   commerceToolsStock |-> commerceToolsStock, fluentStock |-> fluent,
                   nyceStock |-> NoArticle, status |-> "ok",
                   analysis |-> "PERFECTLY SYNCED", details |-> d0]
             ELSE IF difference < 5
             THEN [psid |-> psid, googleSellable |-> "null",
                   commerceToolsStock |-> commerceToolsStock, fluentStock |-> fluent,
                   nyceStock |-> NoArticle, status |-> "ok",
                   analysis |-> "IN SYNC", details |-> d0 \o <<"Minor difference">>]
             ELSE [psid |-> psid, googleSellable |-> "null",
                   commerceToolsStock |-> commerceToolsStock, fluentStock |-> fluent,
                   nyceStock |-> NoArticle, status |-> "issue",
                   analysis |-> "SYNC VARIANCE",
                   details |-> d0 \o <<"Difference", "Note: Fluent is typically ahead">>]
        ELSE IF commerceToolsStock = 0 /\ fluent > 0
        THEN [psid |-> psid, googleSellable |-> "null",
              commerceToolsStock |-> commerceToolsStock, fluentStock |-> fluent,
              nyceStock |-> NoArticle, status |-> "issue",
              analysis |-> "SYNC ISSUE - CommerceTools not updated",
              details |-> d0 \o <<"Fluent has units but CommerceTools shows 0",
                                  "Action: Check CommerceTools sync">>]
        ELSE IF commerceToolsStock > 0 /\ fluent = 0
        THEN [psid |-> psid, googleSellable |-> "null",
              commerceToolsStock |-> commerceToolsStock, fluentStock |-> fluent,
              nyceStock |-> NoArticle, status |-> "issue",
              analysis |-> "UNEXPECTED - CT has stock but Fluent shows 0",
              details |-> d0 \o <<"CommerceTools shows units but Fluent has 0",
                                  "This is unusual">>]
        ELSE [psid |-> psid, googleSellable |-> "null",
              commerceToolsStock |-> commerceToolsStock, fluentStock |-> fluent,
              nyceStock |-> NoArticle, status |-> "ok",
              analysis |-> "NO STOCK", details |-> d0 \o <<"Item is out of stock in both">>]

\* analyzeStockSpot of the non-streaming route: the same chain written a second
\* time, each branch assigning analysis, status and details
BatchAnalyzeStockSpot(psid, commerceToolsStock, fluent) ==
    LET difference == Abs(commerceToolsStock - fluent)
        d0 == <<"Spot-check mode">>
    IN  IF commerceToolsStock > 0 /\ fluent > 0
        THEN IF difference = 0
             THEN [psid |-> psid, googleSellable |-> "null",
                   commerceToolsStock |-> commerceToolsStock, fluentStock |-> fluent,
                   nyceStock |-> NoArticle, status |-> "ok",
                   analysis |-> "PERFECTLY SYNCED", details |-> d0]
             ELSE IF difference <= 5
             THEN [psid |-> psid, googleSellable |-> "null",
                   commerceToolsStock |-> commerceToolsStock, fluentStock |-> fluent,
                   nyceStock |-> NoArticle, status |-> "ok",
                   analysis |-> "IN SYNC", details |-> d0 \o <<"Minor difference">>]
             ELSE [psid |-> psid, googleSellable |-> "null",
                   commerceToolsStock |-> commerceToolsStock, fluentStock |-> fluent,
                   nyceStock |-> NoArticle, status |-> "issue",
                   analysis |-> "SYNC VARIANCE",
                   details |-> d0 \o <<"Difference", "Note: Fluent is typically ahead">>]
        ELSE IF commerceToolsStock = 0 /\ fluent > 0
        THEN [psid |-> psid, googleSellable |-> "null",
              commerceToolsStock |-> commerceToolsStock, fluentStock |-> fluent,
              nyceStock |-> NoArticle, status |-> "issue",
              analysis |-> "SYNC ISSUE - CommerceTools not updated",
              details |-> d0 \o <<"Fluent has units but CommerceTools shows 0",
                                  "Action: Check CommerceTools sync">>]
        ELSE IF commerceToolsStock > 0 /\ fluent = 0
        THEN [psid |-> psid, googleSellable |-> "null",
              commerceToolsStock |-> commerceToolsStock, fluentStock |-> fluent,
              nyceStock |-> NoArticle, status |-> "issue",
              analysis |-> "UNEXPECTED - CT has stock but Fluent shows 0",
              details |-> d0 \o <<"CommerceTools shows units but Fluent has 0",
                                  "This is unusual">>]
        ELSE [psid |-> psid, googleSellable |-> "null",
              commerceToolsStock |-> commerceToolsStock, fluentStock |-> fluent,
              nyceStock |-> NoArticle, status |-> "ok",
              analysis |-> "NO STOCK", details |-> d0 \o <<"Item is out of stock in both">>]

\* upstream requests of the run that failed so far
FailedOutcomes == {"notOk", "throw", "transport", "badJson"}
Failures ==
    Cardinality({p \in 1..Len(reqLog) : reqLog[p].outcome \in FailedOutcomes})
        + Cardinality({e \in 1..Len(errors) : errors[e].tag = "failedToProcess"})

SpotBatchInit ==
    /\ bodyOk \in BOOLEAN
    /\ mode \in {"spot", "other"}
    /\ psidsOk \in BOOLEAN
    /\ psids \in SpotKeyLists
    /\ ~bodyOk => ~psidsOk /\ mode = "spot"
    /\ ~psidsOk => psids = <<>>
    /\ hasNyce = FALSE /\ nyce = EmptyMap /\ feedUrlSet = TRUE
    /\ pc = "sbStart"
    /\ i = 0 /\ events = <<>> /\ closed = FALSE /\ results = <<>> /\ errors = <<>>
    /\ reqLog = <<>> /\ feed = <<>> /\ feedSchema = "lower" /\ fluentMap = EmptyMap
    /\ fluentStock = 0 /\ thrownFetch = FALSE
    /\ processedCount = 0 /\ skippedCount = 0 /\ itemsWithUnallocatedStock = 0
    /\ snapshot = NoSnapshot /\ verdict = NoVerdict
    /\ ScanIdle /\ ClientIdle /\ Connected /\ NoneServed /\ NoBatch

spotBatchIdle == <<bodyOk, mode, psidsOk, psids, hasNyce, nyce, feedUrlSet, snapshot, verdict,
                   cursor, hasNextPage, wire, buffer, handled, cancelled, served,
                   events, feed, feedSchema, fluentStock, thrownFetch, countVars>>

\* request.json() rejects: the outer catch answers 500
SpotBatchParseFails ==
    /\ pc = "sbStart" /\ ~bodyOk
    /\ closed' = TRUE /\ pc' = "sbError"
    /\ UNCHANGED <<spotBatchIdle, i, results, errors, reqLog, fluentMap, batchPromises>>

\* checkMode === 'spot' && (!psids || psids.length === 0): 400
SpotBatchValidateRejects ==
    /\ pc = "sbStart" /\ bodyOk /\ mode = "spot" /\ (~psidsOk \/ psids = <<>>)
    /\ closed' = TRUE /\ pc' = "sbError"
    /\ UNCHANGED <<spotBatchIdle, i, results, errors, reqLog, fluentMap, batchPromises>>

SpotBatchValidateAccepts ==
    /\ pc = "sbStart" /\ bodyOk /\ ~(mode = "spot" /\ (~psidsOk \/ psids = <<>>))
    /\ pc' = "sbAuth"
    /\ UNCHANGED <<spotBatchIdle, i, closed, results, errors, reqLog, fluentMap, batchPromises>>

\* try { fluentToken = await getFluentToken(); fluentMap = await
\* getFluentInventoryForProducts(...) } catch { errors.push(...); new Map() }:
\* a failed authentication, or psids.length on a body without psids, lands in
\* the catch and the run goes on with an empty map
SpotBatchAuth ==
    /\ pc = "sbAuth"
    /\ \E o \in AuthOutcomes :
        /\ o # "ok" => Failures < MaxFailures
        /\ reqLog' = Append(reqLog, Req("auth", "", 0, o))
        /\ IF o = "ok" /\ psidsOk
           THEN /\ pc' = "sbPrimary"
                /\ UNCHANGED errors
           ELSE /\ errors' = Append(errors, [tag |-> "fluentFailed", key |-> "", idx |-> 0])
                /\ pc' = "sbBatch"
    /\ i' = 1
    /\ UNCHANGED <<spotBatchIdle, closed, results, fluentMap, batchPromises>>

\* one turn of the loop of getFluentInventoryForProducts: `continue` on a
\* non-success answer (an answer with GraphQL errors takes the same `continue`),
\* the catch on a throw, otherwise the map entry when an edge came back and the
\* delay before the next key
SpotBatchPrimaryStep ==
    /\ pc = "sbPrimary" /\ i <= Len(psids)
    /\ \E k \in {"answered", "notOk", "throw"} :
        LET psid == psids[i]
            found == psid \in DOMAIN UpstreamPrimary
            outcome == IF k # "answered" THEN k ELSE IF found THEN "ok" ELSE "noEdges"
            rq == Req("primary", psid, i, outcome)
        IN  /\ k # "answered" => Failures < MaxFailures
            /\ reqLog' = IF k = "answered" /\ i < Len(psids)
                         THEN reqLog \o <<rq, Req("delay", psid, i, "")>>
                         ELSE Append(reqLog, rq)
            /\ fluentMap' = IF outcome = "ok"
                            THEN [x \in DOMAIN fluentMap \cup {psid} |->
                                     IF x = psid THEN UpstreamPrimary[psid] ELSE fluentMap[x]]
                            ELSE fluentMap
    /\ i' = i + 1
    /\ UNCHANGED <<spotBatchIdle, pc, closed, results, errors, batchPromises>>

\* return inventoryMap
SpotBatchPrimaryDone ==
    /\ pc = "sbPrimary" /\ i > Len(psids)
    /\ pc' = "sbBatch" /\ i' = 1
    /\ UNCHANGED <<spotBatchIdle, closed, results, errors, reqLog, fluentMap, batchPromises>>

\* `psids.length` of the batch loop on a body without psids: outer catch, 500
SpotBatchPsidsMissing ==
    /\ pc = "sbBatch" /\ ~psidsOk
    /\ closed' = TRUE /\ pc' = "sbError"
    /\ UNCHANGED <<spotBatchIdle, i, results, errors, reqLog, fluentMap, batchPromises>>

\* the keys of psids.slice(i, i + batchSize), by position
BatchOf(first) == {j \in 1..Len(psids) : first <= j /\ j < first + batchSize}

RECURSIVE LookupRequests(_, _)
LookupRequests(first, last) ==
    IF first > last THEN <<>>
    ELSE <<Req("catalog", psids[first], first, "issued")>> \o LookupRequests(first + 1, last)

\* variant: every remaining key is looked up at once
SpotBatchStart_Unbounded ==
    /\ pc = "sbBatch" /\ psidsOk /\ i <= Len(psids)
    /\ batchPromises' = [j \in i..Len(psids) |-> "pending"]
    /\ reqLog' = reqLog \o LookupRequests(i, Len(psids))
    /\ pc' = "sbAwait"
    /\ UNCHANGED <<spotBatchIdle, i, closed, results, errors, fluentMap>>

\* batch.map(async (psid) => ...): every callback runs up to its fetch, so the
\* lookups of the batch are all issued before the handler awaits Promise.all
SpotBatchStart ==
    /\ pc = "sbBatch" /\ psidsOk /\ i <= Len(psids)
    /\ batchPromises' = [j \in BatchOf(i) |-> "pending"]
    /\ reqLog' = reqLog \o LookupRequests(i, i + Cardinality(BatchOf(i)) - 1)
    /\ pc' = "sbAwait"
    /\ UNCHANGED <<spotBatchIdle, i, closed, results, errors, fluentMap>>

SpotLookupResult(j) ==
    LET psid == psids[j]
        commerceToolsStock == IF psid \in DOMAIN UpstreamCatalog THEN UpstreamCatalog[psid] ELSE 0
        fluent == IF psid \in DOMAIN fluentMap THEN fluentMap[psid] ELSE 0
    IN  [idx |-> j, r |-> BatchAnalyzeStockSpot(psid, commerceToolsStock, fluent)]

\* a lookup comes back (TRUE) or throws (FALSE)
LookupOutcomes == IF Failures < MaxFailures THEN BOOLEAN ELSE {TRUE}

\* variant: a callback pushes its result itself when its lookup comes back
SpotBatchSettle_PushOnSettle ==
    /\ pc = "sbAwait"
    /\ \E ok \in LookupOutcomes, j \in DOMAIN batchPromises :
        /\ batchPromises[j] = "pending"
        /\ batchPromises' = [batchPromises EXCEPT ![j] = "null"]
        /\ IF ok
           THEN /\ results' = Append(results, SpotLookupResult(j))
                /\ UNCHANGED errors
           ELSE /\ errors' = Append(errors, [tag |-> "failedToProcess", key |-> psids[j], idx |-> j])
                /\ UNCHANGED results
    /\ UNCHANGED <<spotBatchIdle, pc, i, closed, reqLog, fluentMap>>

\* one lookup of the batch comes back, in any order: the callback returns its
\* result, or its catch pushes the error and returns null
SpotBatchSettle ==
    /\ pc = "sbAwait"
    /\ \E ok \in LookupOutcomes, j \in DOMAIN batchPromises :
        /\ batchPromises[j] = "pending"
        /\ batchPromises' = [batchPromises EXCEPT ![j] = IF ok THEN "result" ELSE "null"]
        /\ errors' = IF ok THEN errors
                     ELSE Append(errors, [tag |-> "failedToProcess", key |-> psids[j], idx |-> j])
    /\ UNCHANGED <<spotBatchIdle, pc, i, closed, results, reqLog, fluentMap>>

RECURSIVE BatchResults(_, _)
BatchResults(first, last) ==
    IF first > last THEN <<>>
    ELSE (IF batchPromises[first] = "result" THEN <<SpotLookupResult(first)>> ELSE <<>>)
             \o BatchResults(first + 1, last)

\* await Promise.all(batchPromises); results.push(...batchResults.filter(r => r !== null))
SpotBatchJoin ==
    /\ pc = "sbAwait"
    /\ \A j \in DOMAIN batchPromises : batchPromises[j] # "pending"
    /\ results' = results \o BatchResults(i, i + Cardinality(DOMAIN batchPromises) - 1)
    /\ batchPromises' = <<>>
    /\ i' = i + batchSize
    /\ pc' = "sbBatch"
    /\ UNCHANGED <<spotBatchIdle, closed, errors, reqLog, fluentMap>>

\* return NextResponse.json({results, errors})
SpotBatchRespond ==
    /\ pc = "sbBatch" /\ psidsOk /\ i > Len(psids)
    /\ closed' = TRUE /\ pc' = "sbDone"
    /\ UNCHANGED <<spotBatchIdle, i, results, errors, reqLog, fluentMap, batchPromises>>

SpotBatchNext ==
    \/ SpotBatchParseFails
    \/ SpotBatchValidateRejects
    \/ SpotBatchValidateAccepts
    \/ SpotBatchAuth
    \/ SpotBatchPrimaryStep
    \/ SpotBatchPrimaryDone
    \/ SpotBatchPsidsMissing
    \/ SpotBatchStart
    \/ SpotBatchSettle
    \/ SpotBatchJoin
    \/ SpotBatchRespond

SpecSpotBatch == SpotBatchInit /\ [][SpotBatchNext]_vars

\* the streaming handler with a checkMode other than 'full'
SpotStreamInit == Init /\ mode # "full"
SpotStreamNext ==
    \/ ParseBodyFails
    \/ ValidateRejects
    \/ ValidateAccepts
    \/ SpotAuth
    \/ SpotPrimaryStep
    \/ SpotPrimaryDone
    \/ SpotLoopStep
    \/ SpotLoopDone
    \/ Complete
    \/ FatalCatch

\* a spot run of either endpoint
SpotRunsInit == SpotStreamInit \/ SpotBatchInit
SpotRunsNext == SpotStreamNext \/ SpotBatchNext
SpecSpotRuns == SpotRunsInit /\ [][SpotRunsNext]_vars

\* the positions whose primary request was made before the request at place p
PrimaryResolvedBefore(p) ==
    {reqLog[q].idx : q \in {r \in 1..(p - 1) : reqLog[r].kind = "primary"}}
\* the authentication failed before place p, so that every per-key primary
\* request was skipped (non-streaming route: the catch leaves the map empty)
PrimarySkippedBefore(p) ==
    \E a \in 1..(p - 1) : reqLog[a].kind = "auth" /\ reqLog[a].outcome # "ok"

\* C31: a spot run has two phases: no catalog lookup is issued until the
\* per-key primary request is resolved (answered, failed or skipped) for every
\* candidate key.
C31_TwoPhase ==
    mode # "full" =>
        \A p \in 1..Len(reqLog) :
            reqLog[p].kind = "catalog" =>
                \/ PrimarySkippedBefore(p)
                \/ PrimaryResolvedBefore(p) = 1..Len(psids)

C31_Witness ==
    /\ mode = "spot" /\ pc = "spotLoop" /\ Len(psids) = MaxPsids
    /\ Cardinality(RequestsOf("catalog")) = 1
    /\ \E q \in RequestsOf("primary") : reqLog[q].idx = MaxPsids /\ reqLog[q].outcome = "throw"

\* lookups in flight, lookups issued so far, and the batch a position belongs to
InFlight == {j \in DOMAIN batchPromises : batchPromises[j] = "pending"}
LookupsIssued == {reqLog[p].idx : p \in {r \in 1..Len(reqLog) : reqLog[r].kind = "catalog"}}
BatchNo(j) == (j - 1) \div batchSize

\* C32: in the non-streaming spot run the catalog lookups go out in batches: at
\* no time are more than 10 lookups in flight, and while a lookup of a batch is
\* in flight (or issued at all) every lookup of the batches before it has finished.
C32_BoundedConcurrency ==
    /\ Cardinality(InFlight) <= 10
    /\ \A j \in LookupsIssued : \A k \in 1..Len(psids) :
          BatchNo(k) < BatchNo(j) => k \in LookupsIssued /\ k \notin InFlight

C32_Witness ==
    /\ pc = "sbAwait" /\ Len(psids) = batchSize + 1
    /\ InFlight = {batchSize + 1}
    /\ Cardinality(LookupsIssued) = batchSize + 1

\* positions of the notes the lookups left
LookupErrors == {e \in 1..Len(errors) : errors[e].tag = "failedToProcess"}

\* C33: whatever the order in which the concurrent lookups come back, the
\* returned results are those of the keys whose lookup succeeded, in the order
\* of the input key list, and every key has exactly one result or exactly one
\* error entry.
C33_OrderAndExactlyOnce ==
    \* the list is in input order while it is built, hence when it is returned
    /\ \A n \in 1..Len(results) :
          /\ results[n].idx \in 1..Len(psids)
          /\ results[n].r.psid = psids[results[n].idx]
          /\ n > 1 => results[n - 1].idx < results[n].idx
    /\ \A e, f \in LookupErrors : errors[e].idx = errors[f].idx => e = f
    /\ pc = "sbDone" =>
          \A j \in 1..Len(psids) :
              (\E n \in 1..Len(results) : results[n].idx = j)
                  <=> ~(\E e \in LookupErrors : errors[e].idx = j)

C33_Witness ==
    /\ pc = "sbDone" /\ Len(psids) = batchSize + 1 /\ Len(results) = batchSize
    /\ \E e \in LookupErrors : errors[e].idx = 3

\* ------------------------------------------- bookkeeping of a streaming run
\* the results carried by the `result` events, in the order they were sent
RECURSIVE ResultsSent(_)
ResultsSent(evs) ==
    IF evs = <<>> THEN <<>>
    ELSE (IF Head(evs).type = "result" THEN Head(evs).results ELSE <<>>) \o ResultsSent(Tail(evs))

\* C34: at the `complete` event of a streaming run every processed candidate
\* accounts for exactly one entry: in spot mode results + errors is the number
\* of candidate keys, in full mode it is overlapCount, the number of unsellable
\* feed entries present in the secondary snapshot.
C34_OneEntryPerCandidate ==
    EndedWithComplete =>
        /\ mode = "spot" =>
              Len(Last(events).results) + Len(Last(events).errors) = Len(psids)
        /\ mode = "full" =>
              Len(Last(events).results) + Len(Last(events).errors) = Cardinality(Covered)

C34_Witness ==
    /\ EndedWithComplete /\ mode = "full" /\ Cardinality(Covered) = 2
    /\ Len(Last(events).results) = 1 /\ Len(Last(events).errors) = 1

\* C35: in a streaming run that ends with `complete`, the results of the
\* `complete` event are exactly the results sent in the `result` events before
\* it, in the same order, which is the candidate order, and `total` is their
\* number.
C35_CompleteRepeatsResults ==
    EndedWithComplete =>
        LET final == Last(events).results
        IN  /\ final = ResultsSent(events)
            /\ Last(events).idx = Len(final)
            /\ \A n \in 2..Len(final) : final[n - 1].idx < final[n].idx

C35_Witness ==
    /\ EndedWithComplete /\ mode = "spot" /\ Len(Last(events).results) = 2
    /\ Last(events).results[1].r.psid # Last(events).results[2].r.psid

\* results sent so far whose secondary record has unallocated stock
UnallocatedSent ==
    {j \in 1..Len(events) :
        /\ events[j].type = "result"
        /\ events[j].results[1].r.nyceStock.onHandQty
             - events[j].results[1].r.nyceStock.inOrderQty > 0}

\* C38: in the `summary` event of a full-mode run itemsWithUnallocatedStock is
\* the number of emitted results whose secondary onHand - inOrder is positive
\* (a candidate whose processing failed is not counted), so that
\* itemsWithUnallocatedStock <= results <= overlapCount <= notSellableCount
\* <= totalGoogleFeedItems.
C38_UnallocatedCount ==
    \A s \in SummaryIdx :
        /\ events[s].itemsWithUnallocatedStock = Cardinality(UnallocatedSent)
        /\ events[s].itemsWithUnallocatedStock <= Len(results)
        /\ Len(results) <= events[s].overlapCount
        /\ events[s].overlapCount <= events[s].notSellableCount
        /\ events[s].notSellableCount <= events[s].totalGoogleFeedItems

C38_Witness ==
    /\ AtLoopEnd /\ SummaryIdx # {} /\ Last(events).itemsWithUnallocatedStock = 1
    /\ Len(results) = 1 /\ Last(events).overlapCount = 2
    /\ \E e \in 1..Len(errors) : nyce[errors[e].key].balance - nyce[errors[e].key].inOrder > 0

\* ------------------------------------------------ severity and notes agree
\* C36: for every full-mode result (catalog, primary >= 0) severity and notes
\* agree: the severity is warning exactly when the minor-variance note is among
\* the notes, and the surplus (sync variance) note is present only when the
\* severity is issue.
C36_SeverityMatchesNotes ==
    ClassifiedFull =>
        /\ verdict.status = "warning" <=> "MINOR VARIANCE" \in Notes
        /\ "SYNC VARIANCE" \in Notes => verdict.status = "issue"

C36_Witness ==
    /\ ClassifiedFull /\ verdict.analysis = "TROLIGTVIS EN SPARR"
    /\ SnapSyncDiff = 10 /\ verdict.status = "warning" /\ "MINOR VARIANCE" \in Notes

\* C37: in a streaming full-mode run the secondary records come from the static
\* import alone, which sets physical = onHand = Balance, so no result of such
\* a run carries the staging-backlog note.
C37_NoStagingNote ==
    mode = "full" =>
        \A j \in 1..Len(results) :
            /\ results[j].r.nyceStock.physicalQty = results[j].r.nyceStock.onHandQty
            /\ results[j].r.nyceStock.onHandQty = nyce[results[j].r.psid].balance
            /\ "STAGING BACKLOG" \notin Range(results[j].r.details)

C37_Witness ==
    /\ mode = "full" /\ pc = "done" /\ Len(results) = 2
    /\ \E j \in 1..Len(results) : results[j].r.nyceStock.physicalQty = 5

\* ------------------------------------------------ the two spot classifiers
\* analyzeStockSpot exists once per route; both are applied to the same pairs.
SpotClsInit == ClsInit /\ snapshot.kind = "spot"

ClassifySpotBatch ==
    /\ pc = "classify" /\ snapshot.kind = "spot"
    /\ verdict' = BatchAnalyzeStockSpot("k1", snapshot.commerceToolsStock, snapshot.fluentStock)
    /\ pc' = "classifiedBatch"
    /\ UNCHANGED <<runVars, snapshot>>

SpotClsNext == ClassifySpot \/ ClassifySpotBatch

SpecSpotClassifiers == SpotClsInit /\ [][SpotClsNext]_vars

Agree(a, b) == a.analysis = b.analysis /\ a.status = b.status /\ a.details = b.details

\* C39: the duplicated spot classifiers agree: for every (catalog, primary) pair
\* the classifier of the streaming route and the one of the non-streaming route
\* return the same category, severity and notes.
C39_SpotClassifiersAgree ==
    /\ pc = "classified" =>
          Agree(verdict, BatchAnalyzeStockSpot("k1", SnapCt, SnapPrimary))
    /\ pc = "classifiedBatch" =>
          Agree(verdict, analyzeStockSpot("k1", SnapCt, SnapPrimary))

C39_Witness ==
    /\ pc = "classifiedBatch" /\ SnapCt = 7 /\ SnapPrimary = 12
    /\ verdict.analysis = "IN SYNC" /\ verdict.status = "ok"

====
